---- MODULE Spec2Model ----
(***************************************************************************)
(* A model of rag-scraper: the crawl loop of WebScraper.scrape and of      *)
(* InteractiveWebScraper.discover_pages, the interactive selection and     *)
(* FETCH phase, the batch embedder and the vector storage.                 *)
(*                                                                         *)
(* Strings whose characters matter (URL paths, robots.txt rules, index     *)
(* strings, chunk texts) are sequences of one-character strings.           *)
(***************************************************************************)
EXTENDS Integers, Sequences, FiniteSets, TLC

VARIABLES
    \* ---- configuration and environment of a crawl session
    mode,             \* "standard" (WebScraper) or "interactive" (InteractiveWebScraper)
    site,             \* the web site: page URL -> the hrefs of its <a> tags, in document order
    start_urls,       \* config.start_urls
    max_pages,        \* config.max_pages
    max_depth,        \* config.max_depth: <<>> for None, <<k>> for the limit k
    delay,            \* config.delay, in milliseconds
    disallowed_paths, \* self.disallowed_paths
    respect_robots_txt, \* config.respect_robots_txt
    user_agent,       \* config.user_agent
    robots_response,  \* what GET https://<domain>/robots.txt gives: its outcome and text
    rpc,              \* "init" until the constructor of the scraper has returned
    \* ---- state of the crawl session
    urls_to_visit,    \* the local list urls_to_visit
    visited_urls,     \* self.visited_urls
    content_map,      \* the dict content_map: its keys in insertion order
    discovered_pages, \* self.discovered_pages: its PageRecords in insertion order
    requests,         \* every GET issued so far: <<phase, url, outcome>> in issue order
    sleep_log,        \* every time.sleep of a page loop so far, in call order
    allowed_log,      \* every call of _is_allowed so far: the URL and what it returned
    enq_order,        \* the URLs put in urls_to_visit, in the order of their first insertion
    pc,               \* where the run is
    \* ---- interactive selection, FETCH phase and the stages of main
    script,           \* what the operator will type, one entry per round of prompts
    round,            \* the rounds of prompts answered so far
    sel_depth,        \* nested calls of select_pages_interactive below the first
    tables,           \* the tables printed by display_discovered_pages, as URL lists
    selected_urls,    \* the list select_pages_interactive returned
    fetch_queue,      \* what `for url in selected_urls` has not reached yet
    stages,           \* the stages main has run, in order
    \* ---- ContentProcessor.process_content
    files,                \* per key of content_map, in dict order: whether the content file
                          \* can be read and the text html2text makes of its page
    min_content_length,   \* config.min_content_length
    chunk_size,           \* config.chunk_size
    chunk_overlap,        \* config.chunk_overlap
    proc_i,               \* the entries of content_map the loop has handled
    proc_log,             \* per handled entry: what process_html returned, or that it raised
    proc_results,         \* the local dict results, in dict order
    ppc,                  \* where process_content is
    \* ---- EmbeddingGenerator.generate_embeddings
    processed_content,    \* the argument: per URL, in dict order, its chunks and metadata
    batch_size,           \* config.batch_size
    all_chunks,           \* the local list all_chunks
    url_to_chunk_indices, \* per URL, in dict order, its (start_idx, end_idx)
    batch_i,              \* the value of i the batch loop comes to next
    embeddings,           \* the local list embeddings
    batches,              \* every batch handed to model.encode, in call order
    results,              \* the dict returned, in dict order
    epc,                  \* where generate_embeddings is
    \* ---- VectorStorage
    embeddings_data,  \* the argument of save, in dict order
    flat_chunks,      \* the local list all_chunks of save
    flat_embeddings,  \* the local list all_embeddings of save
    flat_metadata,    \* the local list all_metadata of save
    index_file,       \* the file at config.index_path: <<>> when absent, else <<its vectors>>
    sidecar_file,     \* the file at config.metadata_path: <<>> when absent, else <<its text>>
    save_status,      \* how the latest save ended: "none", "ok" or "failed"
    loaded,           \* what the latest load returned: <<>> or <<[index, chunks, metadata]>>
    spc               \* where the storage is

robotsVars == <<respect_robots_txt, user_agent, robots_response, rpc>>
crawlConfig == <<mode, site, start_urls, max_pages, max_depth, delay, disallowed_paths, robotsVars>>
crawlLog == <<allowed_log, enq_order>>
crawlState == <<urls_to_visit, visited_urls, content_map, discovered_pages, requests, sleep_log, crawlLog>>
crawlVars == <<crawlConfig, crawlState, pc>>

selVars == <<script, round, sel_depth, tables, selected_urls, fetch_queue, stages>>

embVars == <<processed_content, batch_size, all_chunks, url_to_chunk_indices,
             batch_i, embeddings, batches, results, epc>>
stoVars == <<embeddings_data, flat_chunks, flat_embeddings, flat_metadata,
             index_file, sidecar_file, save_status, loaded, spc>>
procVars == <<files, min_content_length, chunk_size, chunk_overlap,
              proc_i, proc_log, proc_results, ppc>>
dataVars == <<procVars, embVars, stoVars>>

vars == <<crawlVars, selVars, dataVars>>

\* the parts of the state a specification leaves alone
EmbIdle ==
    /\ processed_content = <<>> /\ batch_size = 1 /\ all_chunks = <<>>
    /\ url_to_chunk_indices = <<>> /\ batch_i = 0 /\ embeddings = <<>>
    /\ batches = <<>> /\ results = <<>> /\ epc = "idle"
StoIdle ==
    /\ embeddings_data = <<>> /\ flat_chunks = <<>> /\ flat_embeddings = <<>>
    /\ flat_metadata = <<>> /\ index_file = <<>> /\ sidecar_file = <<>>
    /\ save_status = "none" /\ loaded = <<>> /\ spc = "idle"
ProcIdle ==
    /\ files = <<>> /\ min_content_length = 0 /\ chunk_size = 1 /\ chunk_overlap = 0
    /\ proc_i = 0 /\ proc_log = <<>> /\ proc_results = <<>> /\ ppc = "idle"
DataIdle == ProcIdle /\ EmbIdle /\ StoIdle
(***************************************************************************)
(* Bounds of the model.                                                    *)
(***************************************************************************)
MaxBudget == 4
MaxIdxLen == 4      \* length of the index strings the operator types
MaxShown == 3       \* pages shown when the selection is checked on its own
MaxUrls == 3        \* URLs of a processed-content map
MaxChunks == 3      \* chunks of one URL
MaxBatch == 4       \* largest batch size tried
MaxStoreUrls == 2   \* URLs of the data handed to save
MaxStoreChunks == 2 \* chunks per URL of the data handed to save
MaxFiles == 2       \* content files handed to process_content
MaxRobotsLines == 3 \* lines of a robots.txt
MaxDepthLimit == 1  \* largest max_depth configured

(***************************************************************************)
(* Constants of the program.                                               *)
(***************************************************************************)
DescLimit == 100    \* description[:100] + "..."
DefaultDelay == 500 \* delay: float = Field(default=0.5, ...), in milliseconds
DefaultBatchSize == 32
ExcerptLen == 100   \* chunk[:100] + "..."
MinContentLength == 50
ChunkSize == 1000
ChunkOverlap == 200

(***************************************************************************)
(* Sequences helpers.                                                      *)
(***************************************************************************)
Range(s) == {s[i] : i \in 1..Len(s)}

StartsWith(s, p) == Len(p) <= Len(s) /\ SubSeq(s, 1, Len(p)) = p

\* sep.join(texts)
RECURSIVE Join(_, _)
Join(texts, sep) ==
    IF texts = <<>> THEN <<>>
    ELSE IF Len(texts) = 1 THEN texts[1]
    ELSE texts[1] \o sep \o Join(Tail(texts), sep)

\* the characters str.strip() and \s take for white space
IsSpace(c) == c \in {" ", "\n", "\t"}

\* line.strip()
Strip(t) ==
    LET solid == {i \in 1..Len(t) : ~IsSpace(t[i])}
    IN  IF solid = {} THEN <<>>
        ELSE SubSeq(t, CHOOSE i \in solid : \A j \in solid : i <= j,
                       CHOOSE i \in solid : \A j \in solid : j <= i)

\* text.split('\n')
Lines(t) ==
    LET cuts == {0, Len(t) + 1} \cup {i \in 1..Len(t) : t[i] = "\n"}
        cut(k) == CHOOSE c \in cuts : Cardinality({d \in cuts : d < c}) = k - 1
    IN  [k \in 1..(Cardinality(cuts) - 1) |-> SubSeq(t, cut(k) + 1, cut(k + 1) - 1)]

\* s.lower()
UpperCase == <<"A", "B", "C", "D", "E", "F", "G", "H", "I", "J", "K", "L", "M",
               "N", "O", "P", "Q", "R", "S", "T", "U", "V", "W", "X", "Y", "Z">>
LowerCase == <<"a", "b", "c", "d", "e", "f", "g", "h", "i", "j", "k", "l", "m",
               "n", "o", "p", "q", "r", "s", "t", "u", "v", "w", "x", "y", "z">>
Lower(c) ==
    IF \E i \in 1..26 : UpperCase[i] = c
    THEN LowerCase[CHOOSE i \in 1..26 : UpperCase[i] = c] ELSE c
LowerStr(s) == [i \in 1..Len(s) |-> Lower(s[i])]

\* k in s
Contains(s, k) == \E i \in 1..(Len(s) - Len(k) + 1) : SubSeq(s, i, i + Len(k) - 1) = k

(***************************************************************************)
(* URLs.  A URL is its host, its path and what follows the path (a query   *)
(* or a fragment, "" when there is none).                                  *)
(***************************************************************************)
Url(h, p, x) == [host |-> h, path |-> p, extra |-> x]

Domain == "d"

A  == Url("d", <<>>, "")                        \* https://d
B  == Url("d", <<"/", "a">>, "")                \* https://d/a
C  == Url("d", <<"/", "b">>, "")                \* https://d/b
P  == Url("d", <<"/", "p", "/", "x">>, "")      \* https://d/p/x
Bq == Url("d", <<"/", "a">>, "?q")              \* https://d/a?q
E  == Url("e", <<"/", "a">>, "")                \* https://e/a

\* config.allowed_domains as the validator fills it: [domain]
allowed_domains == {Domain}

\* clean_url = f"{parsed.scheme}://{parsed.netloc}{parsed.path}"
CleanUrl(u) == [u EXCEPT !.extra = ""]

\* _is_allowed(url)
IsAllowedMutNoRules(url, rules) == url.host \in allowed_domains
IsAllowed(url, rules) ==
    /\ url.host \in allowed_domains
    /\ \A i \in 1..Len(rules) :
          ~(rules[i] = <<"/">> \/ StartsWith(url.path, rules[i]))

\* _extract_links(soup, base_url): the hrefs are absolute already
ExtractLinksMutFirstOnly(hrefs, visited, rules) ==
    IF hrefs = <<>> THEN <<>>
    ELSE LET clean_url == CleanUrl(Head(hrefs))
         IN  IF IsAllowed(clean_url, rules) /\ clean_url \notin visited
             THEN <<clean_url>> ELSE <<>>
RECURSIVE ExtractLinks(_, _, _)
ExtractLinks(hrefs, visited, rules) ==
    IF hrefs = <<>> THEN <<>>
    ELSE LET clean_url == CleanUrl(Head(hrefs))
         IN  (IF IsAllowed(clean_url, rules) /\ clean_url \notin visited
              THEN <<clean_url>> ELSE <<>>)
             \o ExtractLinks(Tail(hrefs), visited, rules)

\* the calls of _is_allowed that _extract_links makes, one per <a href>
IsAllowedCalls(hrefs, rules) ==
    { [url |-> CleanUrl(hrefs[i]), allowed |-> IsAllowed(CleanUrl(hrefs[i]), rules)] :
        i \in 1..Len(hrefs) }

\* urls_to_visit after url = urls_to_visit.pop(0)
RemainingMutKeep(queue) == queue
Remaining(queue) == Tail(queue)

\* urls_to_visit.extend(links)
ExtendMutFront(queue, links) == links \o queue
Extend(queue, links) == queue \o links

\* the order of first insertion after the URLs of added are put in the queue
RECURSIVE FirstInsertions(_, _)
FirstInsertions(order, added) ==
    IF added = <<>> THEN order
    ELSE FirstInsertions(IF Head(added) \in Range(order) THEN order
                         ELSE Append(order, Head(added)), Tail(added))

\* the <a href> list the server returns for a URL
Hrefs(s, u) == IF CleanUrl(u) \in DOMAIN s THEN s[CleanUrl(u)] ELSE <<>>

\* d[k] = v on a dict kept as its key sequence
DictSet(keys, k) == IF k \in Range(keys) THEN keys ELSE Append(keys, k)

(***************************************************************************)
(* The constructor of both scrapers and _parse_robots_txt.                 *)
(***************************************************************************)
DefaultUserAgent ==
    <<"R", "A", "G", " ", "S", "c", "r", "a", "p", "e", "r", " ", "B", "o", "t", " ",
      "(", "+", "h", "t", "t", "p", "s", ":", "/", "/", "e", "x", "a", "m", "p", "l",
      "e", ".", "c", "o", "m", "/", "b", "o", "t", ")">>
user_agent_key == <<"u", "s", "e", "r", "-", "a", "g", "e", "n", "t", ":">>
disallow_key == <<"d", "i", "s", "a", "l", "l", "o", "w", ":">>

\* line.split(":", 1)[1].strip() for a line that holds a colon
AfterColon(line) ==
    LET first == CHOOSE i \in 1..Len(line) :
                    line[i] = ":" /\ \A j \in 1..(i - 1) : line[j] # ":"
    IN  Strip(SubSeq(line, first + 1, Len(line)))

\* agent == "*" or agent in self.config.user_agent
AgentApplies(agent, ua) == agent = <<"*">> \/ Contains(ua, agent)

\* the loop over the lines of robots.txt: the paths appended
RECURSIVE RobotsRules(_, _, _, _)
RobotsRules(lines, ua, user_agent_applies, paths) ==
    IF lines = <<>> THEN paths
    ELSE LET line == Strip(Head(lines))
         IN  IF StartsWith(LowerStr(line), user_agent_key)
             THEN RobotsRules(Tail(lines), ua, AgentApplies(AfterColon(line), ua), paths)
             ELSE IF user_agent_applies /\ StartsWith(LowerStr(line), disallow_key)
             THEN RobotsRules(Tail(lines), ua, user_agent_applies,
                              IF AfterColon(line) # <<>>
                              THEN Append(paths, AfterColon(line)) ELSE paths)
             ELSE RobotsRules(Tail(lines), ua, user_agent_applies, paths)

\* self.disallowed_paths when robots.txt could not be fetched
RulesOnFailureMutClosed == << <<"/">> >>
RulesOnFailure == <<>>

\* self.disallowed_paths after _parse_robots_txt
ParseRobotsTxt(response, ua) ==
    IF response.outcome = "ok"
    THEN RobotsRules(Lines(response.text), ua, FALSE, <<>>)
    ELSE RulesOnFailure

\* __init__: self.disallowed_paths = []; if config.respect_robots_txt: parse
ScraperInit ==
    /\ rpc = "init"
    /\ disallowed_paths' = IF respect_robots_txt
                           THEN ParseRobotsTxt(robots_response, user_agent) ELSE <<>>
    /\ rpc' = "ready"
    /\ UNCHANGED <<mode, site, start_urls, max_pages, max_depth, delay, respect_robots_txt,
                   user_agent, robots_response, crawlState, pc, selVars, dataVars>>

\* robots.txt lines
l_agent_all == <<"U", "s", "e", "r", "-", "a", "g", "e", "n", "t", ":", " ", "*">>
l_agent_rag == <<"u", "s", "e", "r", "-", "a", "g", "e", "n", "t", ":", " ", "R", "A", "G">>
l_agent_other == <<"U", "s", "e", "r", "-", "a", "g", "e", "n", "t", ":", " ", "x", "9">>
l_disallow == <<"D", "i", "s", "a", "l", "l", "o", "w", ":", " ">>
l_disallow_none == <<"D", "i", "s", "a", "l", "l", "o", "w", ":">>
l_allow == <<"A", "l", "l", "o", "w", ":", " ", "/", "a">>
RobotsLine(path) == l_disallow \o path
\* a robots.txt for all agents that disallows the given paths
RobotsText(rules) ==
    Join(<< l_agent_all >> \o [i \in 1..Len(rules) |-> RobotsLine(rules[i])], <<"\n">>)

\* the session of a scraper whose constructor has read the given rules
RobotsDone(rules) ==
    /\ respect_robots_txt = TRUE
    /\ user_agent = DefaultUserAgent
    /\ robots_response = [outcome |-> "ok", text |-> RobotsText(rules)]
    /\ rpc = "ready"

(***************************************************************************)
(* The inputs of a session.                                                *)
(***************************************************************************)
SitePages == {A, B, C}
LinkLists == { <<>>, <<B>>, <<C>>, <<B, C>>, <<A, Bq, P, E>> }
Sites == [SitePages -> LinkLists]
StartLists == { <<A>>, <<P, A>>, <<Bq, E>> }
RuleLists == { <<>>, << <<"/", "p">> >>, << <<"/">> >> }
Outcomes == {"ok", "non200", "exception"}

InitCrawl ==
    /\ mode \in {"standard", "interactive"}
    /\ site \in Sites
    /\ start_urls \in StartLists
    /\ max_pages \in 0..MaxBudget
    /\ disallowed_paths \in RuleLists
    /\ RobotsDone(disallowed_paths) /\ max_depth = <<>> /\ delay = DefaultDelay
    /\ urls_to_visit = <<>>
    /\ visited_urls = {}
    /\ content_map = <<>>
    /\ discovered_pages = <<>>
    /\ requests = <<>> /\ sleep_log = <<>> /\ allowed_log = {} /\ enq_order = <<>>
    /\ pc = "start"
    /\ script = <<>> /\ round = 0 /\ sel_depth = 0 /\ tables = <<>> /\ selected_urls = <<>>
    /\ fetch_queue = <<>> /\ stages = <<>>
    /\ DataIdle

(***************************************************************************)
(* WebScraper.scrape                                                       *)
(***************************************************************************)
\* while urls_to_visit and len(self.visited_urls) < max_pages
LoopCondMutInclusive == urls_to_visit # <<>> /\ Cardinality(visited_urls) <= max_pages
LoopCond == urls_to_visit # <<>> /\ Cardinality(visited_urls) < max_pages


\* urls_to_visit = list(self.config.start_urls); content_map = {}
ScrapeBegin ==
    /\ UNCHANGED <<selVars, dataVars>>
    /\ mode = "standard" /\ pc = "start"
    /\ urls_to_visit' = start_urls
    /\ enq_order' = FirstInsertions(<<>>, start_urls)
    /\ content_map' = <<>>
    /\ pc' = "loop"
    /\ UNCHANGED <<crawlConfig, visited_urls, discovered_pages, requests, sleep_log, allowed_log>>

\* the delays a run may be configured with
Delays == {0, DefaultDelay}

\* time.sleep(self.config.delay), called when `issued` page requests have been made
SleepMutNone(log, secs, issued) == log
Sleep(log, secs, issued) == Append(log, [secs |-> secs, issued |-> issued])

AlreadyVisitedMutNever(url, visited) == FALSE
AlreadyVisited(url, visited) == url \in visited

\* self.visited_urls.add(url)
VisitMutSkip(visited, url) == visited
Visit(visited, url) == visited \cup {url}

\* one iteration of the while loop
ScrapeStepMutRetry(outcome) ==
    /\ UNCHANGED <<selVars, dataVars>>
    /\ mode = "standard" /\ pc = "loop" /\ LoopCond
    /\ LET url == Head(urls_to_visit)
           rest == Remaining(urls_to_visit)
       IN  IF AlreadyVisited(url, visited_urls)
           THEN /\ urls_to_visit' = rest
                /\ UNCHANGED <<visited_urls, content_map, requests, sleep_log, crawlLog>>
           ELSE /\ sleep_log' = Sleep(sleep_log, delay, Len(requests))
                /\ requests' = Append(requests, <<"crawl", url, outcome>>)
                /\ IF outcome = "ok"
                   THEN LET links == ExtractLinks(Hrefs(site, url), visited_urls',
                                                  disallowed_paths)
                        IN  /\ visited_urls' = Visit(visited_urls, url)
                            /\ content_map' = DictSet(content_map, url)
                            /\ allowed_log' = allowed_log \cup
                                  IsAllowedCalls(Hrefs(site, url), disallowed_paths)
                            /\ urls_to_visit' = Extend(rest, links)
                            /\ enq_order' = FirstInsertions(enq_order, links)
                   ELSE /\ urls_to_visit' = rest
                        /\ UNCHANGED <<visited_urls, content_map, crawlLog>>
    /\ UNCHANGED <<crawlConfig, discovered_pages, pc>>
ScrapeStep(outcome) ==
    /\ UNCHANGED <<selVars, dataVars>>
    /\ mode = "standard" /\ pc = "loop" /\ LoopCond
    /\ LET url == Head(urls_to_visit)
           rest == Remaining(urls_to_visit)
       IN  IF AlreadyVisited(url, visited_urls)
           THEN /\ urls_to_visit' = rest
                /\ UNCHANGED <<visited_urls, content_map, requests, sleep_log, crawlLog>>
           ELSE /\ visited_urls' = Visit(visited_urls, url)
                /\ sleep_log' = Sleep(sleep_log, delay, Len(requests))
                /\ requests' = Append(requests, <<"crawl", url, outcome>>)
                /\ IF outcome = "ok"
                   THEN LET links == ExtractLinks(Hrefs(site, url), visited_urls',
                                                  disallowed_paths)
                        IN  /\ content_map' = DictSet(content_map, url)
                            /\ allowed_log' = allowed_log \cup
                                  IsAllowedCalls(Hrefs(site, url), disallowed_paths)
                            /\ urls_to_visit' = Extend(rest, links)
                            /\ enq_order' = FirstInsertions(enq_order, links)
                   ELSE /\ urls_to_visit' = rest
                        /\ UNCHANGED <<content_map, crawlLog>>
    /\ UNCHANGED <<crawlConfig, discovered_pages, pc>>

\* the while condition is false: return content_map
ScrapeReturn ==
    /\ UNCHANGED <<selVars, dataVars>>
    /\ mode = "standard" /\ pc = "loop" /\ ~LoopCond
    /\ pc' = "done"
    /\ UNCHANGED <<crawlConfig, urls_to_visit, visited_urls, content_map,
                   discovered_pages, requests, sleep_log, crawlLog>>

(***************************************************************************)
(* InteractiveWebScraper.discover_pages                                    *)
(***************************************************************************)
\* what the pages hold: <title> and <meta name="description">, "" when absent
PageTitle(u) ==
    IF u = A THEN <<"T", "a">> ELSE IF CleanUrl(u) = B THEN <<"b">> ELSE <<>>
PageDescription(u) ==
    IF u = A THEN <<"a", "b">> ELSE IF u = C THEN [i \in 1..(DescLimit + 1) |-> "z"] ELSE <<>>

NoTitle == <<"N", "o", " ", "t", "i", "t", "l", "e">>
NoDescription == <<"N", "o", " ", "d", "e", "s", "c", "r", "i", "p", "t", "i", "o", "n">>

\* s[:n] + "..." if len(s) > n else s
Excerpt(s, n) == IF Len(s) > n THEN SubSeq(s, 1, n) \o <<".", ".", ".">> ELSE s

\* _extract_page_info(url, html_content)
PageInfo(url) ==
    [url |-> url,
     title |-> IF PageTitle(url) # <<>> THEN PageTitle(url) ELSE NoTitle,
     description |-> Excerpt(IF PageDescription(url) # <<>> THEN PageDescription(url)
                                                           ELSE NoDescription, DescLimit)]

DiscoverBegin ==
    /\ UNCHANGED <<selVars, dataVars>>
    /\ mode = "interactive" /\ pc = "start"
    /\ urls_to_visit' = start_urls
    /\ enq_order' = FirstInsertions(<<>>, start_urls)
    /\ pc' = "loop"
    /\ UNCHANGED <<crawlConfig, visited_urls, content_map, discovered_pages, requests, sleep_log,
                   allowed_log>>

DiscoverStepMutPersist(outcome) ==
    /\ UNCHANGED <<selVars, dataVars>>
    /\ mode = "interactive" /\ pc = "loop" /\ LoopCond
    /\ LET url == Head(urls_to_visit)
           rest == Remaining(urls_to_visit)
       IN  IF AlreadyVisited(url, visited_urls)
           THEN /\ urls_to_visit' = rest
                /\ UNCHANGED <<visited_urls, discovered_pages, requests, sleep_log, crawlLog>>
           ELSE /\ visited_urls' = Visit(visited_urls, url)
                /\ sleep_log' = Sleep(sleep_log, delay, Len(requests))
                /\ requests' = Append(requests, <<"crawl", url, outcome>>)
                /\ IF outcome = "ok"
                   THEN /\ discovered_pages' =
                              IF \E i \in 1..Len(discovered_pages) : discovered_pages[i].url = url
                              THEN discovered_pages
                              ELSE Append(discovered_pages, PageInfo(url))
                        /\ LET links == ExtractLinks(Hrefs(site, url), visited_urls',
                                                     disallowed_paths)
                           IN  /\ allowed_log' = allowed_log \cup
                                     IsAllowedCalls(Hrefs(site, url), disallowed_paths)
                               /\ urls_to_visit' = Extend(rest, links)
                               /\ enq_order' = FirstInsertions(enq_order, links)
                   ELSE /\ urls_to_visit' = rest
                        /\ UNCHANGED <<discovered_pages, crawlLog>>
    /\ content_map' = IF outcome = "ok" /\ ~AlreadyVisited(Head(urls_to_visit), visited_urls)
                       THEN DictSet(content_map, Head(urls_to_visit)) ELSE content_map
    /\ UNCHANGED <<crawlConfig, pc>>
DiscoverStep(outcome) ==
    /\ UNCHANGED <<selVars, dataVars>>
    /\ mode = "interactive" /\ pc = "loop" /\ LoopCond
    /\ LET url == Head(urls_to_visit)
           rest == Remaining(urls_to_visit)
       IN  IF AlreadyVisited(url, visited_urls)
           THEN /\ urls_to_visit' = rest
                /\ UNCHANGED <<visited_urls, discovered_pages, requests, sleep_log, crawlLog>>
           ELSE /\ visited_urls' = Visit(visited_urls, url)
                /\ sleep_log' = Sleep(sleep_log, delay, Len(requests))
                /\ requests' = Append(requests, <<"crawl", url, outcome>>)
                /\ IF outcome = "ok"
                   THEN /\ discovered_pages' =
                              IF \E i \in 1..Len(discovered_pages) : discovered_pages[i].url = url
                              THEN discovered_pages
                              ELSE Append(discovered_pages, PageInfo(url))
                        /\ LET links == ExtractLinks(Hrefs(site, url), visited_urls',
                                                     disallowed_paths)
                           IN  /\ allowed_log' = allowed_log \cup
                                     IsAllowedCalls(Hrefs(site, url), disallowed_paths)
                               /\ urls_to_visit' = Extend(rest, links)
                               /\ enq_order' = FirstInsertions(enq_order, links)
                   ELSE /\ urls_to_visit' = rest
                        /\ UNCHANGED <<discovered_pages, crawlLog>>
    /\ UNCHANGED <<crawlConfig, content_map, pc>>

DiscoverReturn ==
    /\ UNCHANGED <<selVars, dataVars>>
    /\ mode = "interactive" /\ pc = "loop" /\ ~LoopCond
    /\ pc' = "done"
    /\ UNCHANGED <<crawlConfig, urls_to_visit, visited_urls, content_map,
                   discovered_pages, requests, sleep_log, crawlLog>>

NextCrawl ==
    \/ ScrapeBegin
    \/ \E o \in Outcomes : ScrapeStep(o)
    \/ ScrapeReturn
    \/ DiscoverBegin
    \/ \E o \in Outcomes : DiscoverStep(o)
    \/ DiscoverReturn

Spec == InitCrawl /\ [][NextCrawl]_vars

\* the loop is sequential code and every request returns or times out, so a crawl
\* that can take a step takes one
SpecLive == InitCrawl /\ [][NextCrawl]_vars /\ WF_vars(NextCrawl)

(***************************************************************************)
(* InteractiveWebScraper.select_pages_interactive: the parsing of the      *)
(* index string, the keyword filter.                                       *)
(***************************************************************************)
Digits == <<"0", "1", "2", "3", "4", "5", "6", "7", "8", "9">>
IsDigit(c) == \E d \in 1..10 : Digits[d] = c
DigitVal(c) == (CHOOSE d \in 1..10 : Digits[d] = c) - 1

\* a value or a raised ValueError
Ok(v) == [ok |-> TRUE, val |-> v]
Raise == [ok |-> FALSE]

\* int(s) for a string over digits, ',' and '-'
RECURSIVE IntOfDigits(_, _)
IntOfDigits(s, acc) ==
    IF s = <<>> THEN acc ELSE IntOfDigits(Tail(s), 10 * acc + DigitVal(Head(s)))
ParseInt(s) ==
    IF s # <<>> /\ \A i \in 1..Len(s) : IsDigit(s[i])
    THEN Ok(IntOfDigits(s, 0)) ELSE Raise

\* s.split(sep): the pieces between the separators, empty pieces kept
RECURSIVE SplitAcc(_, _, _)
SplitAcc(s, sep, cur) ==
    IF s = <<>> THEN << cur >>
    ELSE IF Head(s) = sep THEN << cur >> \o SplitAcc(Tail(s), sep, <<>>)
    ELSE SplitAcc(Tail(s), sep, Append(cur, Head(s)))
Split(s, sep) == SplitAcc(s, sep, <<>>)

\* the body of `for part in parts` for one part: the indices it adds
RangeEndMutExclusive(start, end) == start..(end - 1)
RangeEnd(start, end) == start..end            \* range(start, end + 1)
PartIndices(part) ==
    IF "-" \in Range(part)
    THEN LET pieces == Split(part, "-")
         IN  IF Len(pieces) # 2 THEN Raise
             ELSE LET start == ParseInt(pieces[1])
                      end == ParseInt(pieces[2])
                  IN  IF start.ok /\ end.ok
                      THEN Ok(RangeEnd(start.val, end.val)) ELSE Raise
    ELSE LET n == ParseInt(part)
         IN  IF n.ok THEN Ok({n.val}) ELSE Raise

\* selected_indices after the loop over indices_str.split(','), or the ValueError
RECURSIVE PartsIndices(_)
PartsIndices(parts) ==
    IF parts = <<>> THEN Ok({})
    ELSE LET h == PartIndices(Head(parts))
         IN  IF ~h.ok THEN Raise
             ELSE LET t == PartsIndices(Tail(parts))
                  IN  IF t.ok THEN Ok(h.val \cup t.val) ELSE Raise
ParseIndices(indices_str) == PartsIndices(Split(indices_str, ","))

\* the orders in which `for idx in selected_indices` can iterate a set
RECURSIVE Orders(_)
Orders(S) ==
    IF S = {} THEN { <<>> }
    ELSE UNION { { <<x>> \o t : t \in Orders(S \ {x}) } : x \in S }

\* if 1 <= idx <= len(urls): selected_urls.append(urls[idx - 1])
InRangeMutZeroBased(idx, n) == 0 <= idx /\ idx < n
InRange(idx, n) == 1 <= idx /\ idx <= n
SelectByIndex(urls, indices) ==
    LET kept == { idx \in indices : InRange(idx, Len(urls)) }
    IN  { [i \in 1..Len(order) |-> urls[order[i]]] : order \in Orders(kept) }

\* the URL as the string the keyword is matched against
UrlChars(u) ==
    <<"h", "t", "t", "p", "s", ":", "/", "/", u.host>> \o u.path
      \o (IF u.extra = "" THEN <<>> ELSE <<"?", "q">>)

\* the filter of choice 3 on one discovered page
MatchesKeywordMutCaseSensitive(info, keyword) ==
    \/ Contains(UrlChars(info.url), keyword)
    \/ Contains(info.title, keyword)
    \/ Contains(info.description, keyword)
MatchesKeyword(info, keyword) ==
    \/ Contains(LowerStr(UrlChars(info.url)), LowerStr(keyword))
    \/ Contains(LowerStr(info.title), LowerStr(keyword))
    \/ Contains(LowerStr(info.description), LowerStr(keyword))

RECURSIVE SelectByKeyword(_, _)
SelectByKeyword(pages, keyword) ==
    IF pages = <<>> THEN <<>>
    ELSE (IF MatchesKeyword(Head(pages), keyword) THEN << Head(pages).url >> ELSE <<>>)
         \o SelectByKeyword(Tail(pages), keyword)

\* one round of the operator's answers: the option, the text typed after it
\* (index string or keyword) and the answer to "Proceed with these pages?"
Input(choice, text, confirm) == [choice |-> choice, text |-> text, confirm |-> confirm]

PageUrls == [i \in 1..Len(discovered_pages) |-> discovered_pages[i].url]

\* display_discovered_pages: one row per discovered page, in the order of the dict
Display == Append(tables, PageUrls)

\* interactive_scrape, step 2: the call of select_pages_interactive, up to its prompt
SelectBegin ==
    /\ UNCHANGED dataVars
    /\ mode = "interactive" /\ pc = "done"
    /\ tables' = Display
    /\ pc' = "select"
    /\ UNCHANGED <<crawlConfig, crawlState, script, round, sel_depth, selected_urls,
                   fetch_queue, stages>>

\* return self.select_pages_interactive(): the nested call, up to its prompt
RecurseMutRaise ==
    /\ pc' = "raised"
    /\ UNCHANGED <<sel_depth, tables, selected_urls>>
Recurse ==
    /\ sel_depth' = sel_depth + 1 /\ pc' = "select"
    /\ tables' = Display
    /\ UNCHANGED selected_urls

\* select_pages_interactive from the answer to its prompt up to its return, the
\* exception it raises, or the prompt of its recursive call
SelectPages ==
    /\ UNCHANGED dataVars
    /\ pc = "select" /\ round < Len(script)
    /\ LET in == script[round + 1]
           urls == PageUrls
           Return(sel) == /\ selected_urls' = sel /\ pc' = "selected"
                          /\ UNCHANGED <<sel_depth, tables>>
       IN  CASE in.choice = 1 -> Return(urls)
             [] in.choice = 2 ->
                  LET parsed == ParseIndices(in.text)
                  IN  IF parsed.ok
                      THEN \E sel \in SelectByIndex(urls, parsed.val) : Return(sel)
                      ELSE /\ pc' = "raised"
                           /\ UNCHANGED <<selected_urls, sel_depth, tables>>
             [] in.choice = 3 ->
                  IF in.confirm
                  THEN Return(SelectByKeyword(discovered_pages, in.text))
                  ELSE Recurse
             [] in.choice = 4 -> Return(<<>>)
             [] OTHER -> Recurse
    /\ round' = round + 1
    /\ UNCHANGED <<crawlConfig, crawlState, script, fetch_queue, stages>>

\* interactive_scrape: if not selected_urls: return {}
ReturnEmpty ==
    /\ UNCHANGED dataVars
    /\ pc = "selected" /\ selected_urls = <<>>
    /\ pc' = "returned"
    /\ UNCHANGED <<crawlConfig, crawlState, selVars>>

(***************************************************************************)
(* InteractiveWebScraper.scrape_selected_pages                             *)
(***************************************************************************)
\* the argument of scrape_selected_pages in interactive_scrape
FetchTargetsMutPending == selected_urls \o urls_to_visit
FetchTargets == selected_urls

FetchBegin ==
    /\ UNCHANGED dataVars
    /\ pc = "selected" /\ selected_urls # <<>>
    /\ content_map' = <<>>
    /\ fetch_queue' = FetchTargets
    /\ pc' = "fetch"
    /\ UNCHANGED <<crawlConfig, urls_to_visit, visited_urls, discovered_pages, requests, sleep_log,
                   crawlLog, script, round, sel_depth, tables, selected_urls, stages>>

\* one iteration of `for url in selected_urls`
FetchStepMutFollow(outcome) ==
    /\ UNCHANGED dataVars
    /\ pc = "fetch" /\ fetch_queue # <<>>
    /\ LET url == Head(fetch_queue)
       IN  /\ sleep_log' = Sleep(sleep_log, delay, Len(requests))
           /\ requests' = Append(requests, <<"fetch", url, outcome>>)
           /\ content_map' = IF outcome = "ok" THEN DictSet(content_map, url)
                                               ELSE content_map
           /\ fetch_queue' =
                 Tail(fetch_queue) \o
                   (IF outcome = "ok"
                    THEN ExtractLinks(Hrefs(site, url), Range(content_map'), disallowed_paths)
                    ELSE <<>>)
    /\ UNCHANGED <<crawlConfig, urls_to_visit, visited_urls, discovered_pages, pc,
                   crawlLog, script, round, sel_depth, tables, selected_urls, stages>>
FetchStep(outcome) ==
    /\ UNCHANGED dataVars
    /\ pc = "fetch" /\ fetch_queue # <<>>
    /\ LET url == Head(fetch_queue)
       IN  /\ sleep_log' = Sleep(sleep_log, delay, Len(requests))
           /\ requests' = Append(requests, <<"fetch", url, outcome>>)
           /\ content_map' = IF outcome = "ok" THEN DictSet(content_map, url)
                                               ELSE content_map
    /\ fetch_queue' = Tail(fetch_queue)
    /\ UNCHANGED <<crawlConfig, urls_to_visit, visited_urls, discovered_pages, pc,
                   crawlLog, script, round, sel_depth, tables, selected_urls, stages>>

FetchReturn ==
    /\ UNCHANGED dataVars
    /\ pc = "fetch" /\ fetch_queue = <<>>
    /\ pc' = "returned"
    /\ UNCHANGED <<crawlConfig, crawlState, selVars>>

(***************************************************************************)
(* main of cli-module.py after the crawl                                   *)
(***************************************************************************)
CrawlReturned == (mode = "standard" /\ pc = "done") \/ (mode = "interactive" /\ pc = "returned")

\* if not content_map: return
EmptyMapMutIgnored(m) == FALSE
EmptyMap(m) == m = <<>>
MainCheck ==
    /\ UNCHANGED dataVars
    /\ CrawlReturned
    /\ pc' = IF EmptyMap(content_map) THEN "exit0" ELSE "process"
    /\ UNCHANGED <<crawlConfig, crawlState, selVars>>

\* except Exception as e: logger.error(...); sys.exit(1)
MainCatchMutExit0 ==
    /\ UNCHANGED dataVars
    /\ pc = "raised"
    /\ pc' = "exit0"
    /\ UNCHANGED <<crawlConfig, crawlState, selVars>>
MainCatch ==
    /\ UNCHANGED dataVars
    /\ pc = "raised"
    /\ pc' = "exit1"
    /\ UNCHANGED <<crawlConfig, crawlState, selVars>>


(***************************************************************************)
(* A whole run of main: the crawl, in interactive mode the selection and   *)
(* the FETCH phase, then the stages of the pipeline.                       *)
(***************************************************************************)
SiteOf(a, b, c) == [u \in SitePages |-> IF u = A THEN a ELSE IF u = B THEN b ELSE c]
RunSites == { SiteOf(<<B, C>>, <<C>>, <<>>), SiteOf(<<A, Bq, P, E>>, <<C>>, <<B>>) }
str_1_3 == <<"1", ",", "3">>
str_2_9 == <<"2", "-", "9">>
str_bad == <<"1", ",">>
kw_a == <<"a">>
kw_none == <<"q", "q">>
kw_TA == <<"T", "A">>
kw_AB == <<"A", "B">>
RunScripts ==
    { << Input(1, <<>>, FALSE) >>,
      << Input(4, <<>>, FALSE) >>,
      << Input(2, str_1_3, FALSE) >>,
      << Input(2, str_2_9, FALSE) >>,
      << Input(2, str_bad, FALSE) >>,
      << Input(3, kw_a, TRUE) >>,
      << Input(3, kw_none, TRUE) >>,
      << Input(3, kw_AB, TRUE) >>,
      << Input(3, kw_a, FALSE), Input(4, <<>>, FALSE) >>,
      << Input(3, kw_a, FALSE), Input(3, kw_TA, TRUE) >>,
      << Input(7, <<>>, FALSE), Input(3, kw_a, FALSE), Input(1, <<>>, FALSE) >> }

\* the components as main constructs them from the default configuration, over an
\* empty output directory
RunReady ==
    /\ files = <<>> /\ min_content_length = MinContentLength
    /\ chunk_size = ChunkSize /\ chunk_overlap = ChunkOverlap
    /\ proc_i = 0 /\ proc_log = <<>> /\ proc_results = <<>> /\ ppc = "idle"
    /\ processed_content = <<>> /\ batch_size = DefaultBatchSize /\ all_chunks = <<>>
    /\ url_to_chunk_indices = <<>> /\ batch_i = 0 /\ embeddings = <<>>
    /\ batches = <<>> /\ results = <<>> /\ epc = "idle"
    /\ StoIdle

InitRun ==
    /\ mode \in {"standard", "interactive"}
    /\ site \in RunSites
    /\ start_urls = <<A>>
    /\ max_pages \in 0..MaxBudget
    /\ disallowed_paths \in RuleLists
    /\ RobotsDone(disallowed_paths) /\ max_depth = <<>> /\ delay \in Delays
    /\ urls_to_visit = <<>>
    /\ visited_urls = {}
    /\ content_map = <<>>
    /\ discovered_pages = <<>>
    /\ requests = <<>> /\ sleep_log = <<>> /\ allowed_log = {} /\ enq_order = <<>>
    /\ pc = "start"
    /\ script \in (IF mode = "interactive" THEN RunScripts ELSE { <<>> })
    /\ round = 0 /\ sel_depth = 0 /\ tables = <<>> /\ selected_urls = <<>>
    /\ fetch_queue = <<>> /\ stages = <<>>
    /\ RunReady

(***************************************************************************)
(* select_pages_interactive on its own: any index string over the          *)
(* alphabet, any option, over a list of n discovered pages p1..pn.         *)
(***************************************************************************)
IndexAlphabet == {"0", "1", "2", "3", ",", "-"}
RECURSIVE StringsUpTo(_)
StringsUpTo(n) ==
    IF n = 0 THEN { <<>> }
    ELSE LET shorter == StringsUpTo(n - 1)
         IN  shorter \cup { Append(t, c) : t \in shorter, c \in IndexAlphabet }
IndexStrings == StringsUpTo(MaxIdxLen) \ { <<>> }

\* "1,3,5-7" over 8 pages
ExampleString == <<"1", ",", "3", ",", "5", "-", "7">>

PageN(i) == Url(Domain, <<"/", Digits[i + 1]>>, "")
Shown(n) == [i \in 1..n |-> PageInfo(PageN(i))]

SelectInputs ==
    { Input(2, t, FALSE) : t \in IndexStrings }
      \cup { Input(c, <<>>, FALSE) : c \in {1, 4, 5} }
      \cup { Input(3, k, b) : k \in {kw_a, kw_none}, b \in BOOLEAN }

InitSelect ==
    /\ mode = "interactive"
    /\ site = [u \in SitePages |-> <<>>]
    /\ start_urls = <<A>>
    /\ max_pages = MaxBudget
    /\ disallowed_paths = <<>>
    /\ RobotsDone(disallowed_paths) /\ max_depth = <<>> /\ delay = DefaultDelay
    /\ urls_to_visit = <<>>
    /\ visited_urls = {}
    /\ content_map = <<>>
    /\ requests = <<>> /\ sleep_log = <<>> /\ allowed_log = {} /\ enq_order = <<>>
    /\ pc = "select"
    /\ \/ \E n \in 0..MaxShown, in \in SelectInputs :
             /\ discovered_pages = Shown(n)
             /\ script = << in >>
       \/ /\ discovered_pages = Shown(8)
          /\ script = << Input(2, ExampleString, FALSE) >>
    /\ round = 0 /\ sel_depth = 0 /\ tables = << PageUrls >> /\ selected_urls = <<>>
    /\ fetch_queue = <<>> /\ stages = <<>>
    /\ DataIdle

SpecSelect == InitSelect /\ [][SelectPages]_vars

(***************************************************************************)
(* Claims about the crawl loop.                                            *)
(***************************************************************************)
CrawlRequests == {i \in 1..Len(requests) : requests[i][1] = "crawl"}
Requested == {requests[i][2] : i \in CrawlRequests}
Disallowed(url, rules) ==
    \E i \in 1..Len(rules) : rules[i] = <<"/">> \/ StartsWith(url.path, rules[i])

\* C1: in one crawl pass no URL is requested more than once, and the requests
\* are exactly one per visited URL (a dequeued URL already visited causes none).
C1_NoUrlRequestedTwice ==
    /\ \A i, j \in CrawlRequests : requests[i][2] = requests[j][2] => i = j
    /\ Requested = visited_urls

\* a URL that was requested is dequeued again (it had been appended more than once)
\* and the pass ends without a second request for it
C1_Witness ==
    /\ pc = "done"
    /\ site[A] = <<B, C>> /\ site[B] = <<C>> /\ site[C] = <<B>>
    /\ start_urls = <<A>> /\ max_pages = 4
    /\ urls_to_visit = <<>>
    /\ Len(requests) = 3

\* C2: the visited count never exceeds the page budget, so at most max_pages
\* page requests are issued, whatever the links and whatever fetches fail.
C2_VisitedWithinBudget ==
    /\ Cardinality(visited_urls) <= max_pages
    /\ Cardinality(CrawlRequests) <= max_pages

\* the budget stops the loop while URLs are still pending, after a failed fetch
C2_Witness ==
    /\ pc = "done" /\ urls_to_visit # <<>>
    /\ max_pages > 0 /\ Cardinality(visited_urls) = max_pages
    /\ \E i \in CrawlRequests : requests[i][3] # "ok"

\* C3: a URL whose path a rule disallows (or any URL when a rule is "/") is never
\* requested by the crawl loop and never a key of the content map, the start URLs
\* included.
C3_DisallowedNeverRequested ==
    /\ \A u \in Requested : ~Disallowed(u, disallowed_paths)
    /\ \A u \in Range(content_map) : ~Disallowed(u, disallowed_paths)

\* C4: every URL in the pending queue, seed or extracted link, satisfies is_allowed
\* (the rule list and the allowed domains do not change during a pass), and no
\* disallowed URL appears in discovered_pages.
C4_EnqueuedAllowed ==
    /\ \A i \in 1..Len(urls_to_visit) : IsAllowed(urls_to_visit[i], disallowed_paths)
    /\ \A i \in 1..Len(discovered_pages) :
          IsAllowed(discovered_pages[i].url, disallowed_paths)

\* the pages reachable from the start URLs through links inside the allowed domains
RECURSIVE Closure(_)
Closure(S) ==
    LET N == S \cup { u \in {CleanUrl(h) : h \in UNION {Range(Hrefs(site, v)) : v \in S}} :
                        u.host \in allowed_domains }
    IN  IF N = S THEN S ELSE Closure(N)
Reachable == Closure(Range(start_urls))

\* C5: when no fetch fails, no rule excludes a reachable page and the budget covers
\* the reachable pages, scrape() ends with visited = the reachable set and one
\* content-map entry per reachable page.
C5_FullCrawl ==
    ( /\ mode = "standard" /\ pc = "done"
      /\ \A i \in CrawlRequests : requests[i][3] = "ok"
      /\ \A u \in Reachable : ~Disallowed(u, disallowed_paths)
      /\ max_pages >= Cardinality(Reachable) )
    => /\ visited_urls = Reachable
       /\ Range(content_map) = Reachable
       /\ Len(content_map) = Cardinality(Reachable)

\* the chain A -> B -> C with a budget above 3
C5_Witness ==
    /\ mode = "standard" /\ pc = "done"
    /\ site[A] = <<B>> /\ site[B] = <<C>> /\ site[C] = <<>>
    /\ start_urls = <<A>> /\ disallowed_paths = <<>> /\ max_pages = 4
    /\ visited_urls = {A, B, C} /\ Len(content_map) = 3

\* what the rules say of a URL, read position by position
C16_Expected(u, rules) ==
    IF u.host \notin allowed_domains THEN FALSE
    ELSE IF \E r \in Range(rules) :
               \/ r = <<"/">>
               \/ Len(r) <= Len(u.path) /\ \A k \in 1..Len(r) : u.path[k] = r[k]
    THEN FALSE
    ELSE TRUE

\* C16: is_allowed(url) is false for a host outside allowed_domains, false when a rule
\* is "/" or a prefix of the path, true otherwise, whatever the visited set and the
\* queue hold when it is called.
C16_IsAllowed ==
    \A c \in allowed_log : c.allowed = C16_Expected(c.url, disallowed_paths)

\* calls that answered false for a foreign host and for a prefix rule, and true
C16_Witness ==
    /\ disallowed_paths = << <<"/", "p">> >> /\ visited_urls # {}
    /\ [url |-> E, allowed |-> FALSE] \in allowed_log
    /\ [url |-> P, allowed |-> FALSE] \in allowed_log
    /\ [url |-> B, allowed |-> TRUE] \in allowed_log

\* the rule "/" against the path "" of the start URL
C16_WitnessRoot ==
    /\ disallowed_paths = << <<"/">> >>
    /\ [url |-> A, allowed |-> FALSE] \in allowed_log

IsPrefix(a, b) == Len(a) <= Len(b) /\ SubSeq(b, 1, Len(a)) = a
C17_Order ==
    /\ Len(requests) <= Len(enq_order)
    /\ \A i \in 1..Len(requests) : requests[i][2] = enq_order[i]
    /\ LET ok == {i \in 1..Len(requests) : requests[i][3] = "ok"}
           nth(k) == CHOOSE i \in ok : Cardinality({j \in ok : j < i}) = k - 1
           fetched == [k \in 1..Cardinality(ok) |-> requests[nth(k)][2]]
       IN  IF mode = "standard" THEN content_map = fetched ELSE PageUrls = fetched
C17_Grows ==
    /\ IsPrefix(content_map, content_map')
    /\ IsPrefix(discovered_pages, discovered_pages')
    /\ IsPrefix(enq_order, enq_order')

\* C17: the crawl is breadth-first over a FIFO queue: URLs are requested in the order
\* of their first insertion in the pending queue; the content map and the discovered
\* pages list the pages in fetch order and only gain entries.
C17_Fifo == [](C17_Order) /\ [][C17_Grows]_vars

\* A links to a and b, a links to p/x: breadth-first asks for b before p/x
C17_Witness ==
    /\ pc = "done" /\ Len(requests) = 4
    /\ requests[1][2] = A /\ requests[2][2] = B /\ requests[3][2] = C /\ requests[4][2] = P
    /\ requests[2][3] = "ok"

\* C18: for a finite page budget the crawl loop ends, also on a cyclic link graph and
\* when pages link to URLs already queued; when it has ended the pending queue is
\* empty or the visited count equals the page budget.
C18_Terminates ==
    /\ <>(pc = "done")
    /\ [](pc = "done" =>
            (urls_to_visit = <<>> \/ Cardinality(visited_urls) = max_pages))

\* a cycle A -> a -> A with the duplicate of a queued URL skipped, ended on the budget
C18_Witness ==
    /\ pc = "done" /\ B \in Range(Hrefs(site, A)) /\ A \in Range(Hrefs(site, B))
    /\ Cardinality(visited_urls) = max_pages /\ urls_to_visit # <<>>
    /\ Len(requests) >= 2

\* the same cycle ended on an empty queue
C18_WitnessEmpty ==
    /\ pc = "done" /\ B \in Range(Hrefs(site, A)) /\ A \in Range(Hrefs(site, B))
    /\ Cardinality(visited_urls) < max_pages /\ urls_to_visit = <<>>
    /\ Len(requests) >= 2

Failed(i) == requests[i][1] = "crawl" /\ requests[i][3] # "ok"
C14_State ==
    \A i \in 1..Len(requests) :
       Failed(i) =>
          /\ requests[i][2] \in visited_urls
          /\ requests[i][2] \notin Range(content_map)
          /\ requests[i][2] \notin Range(PageUrls)
          /\ \A j \in 1..Len(requests) : requests[j][2] = requests[i][2] => j = i
          /\ pc \in {"loop", "done"}
C14_Step ==
    (Len(requests') = Len(requests) + 1 /\ requests'[Len(requests')][3] # "ok")
       => /\ urls_to_visit' = Tail(urls_to_visit)
          /\ content_map' = content_map /\ discovered_pages' = discovered_pages
          /\ pc' = pc

\* C14: a fetch ending with a non-200 status or an exception leaves the URL in the
\* visited set and out of the content map, is never repeated, adds no link to the
\* queue, and the loop goes on.
C14_SoftFailure == [](C14_State) /\ [][C14_Step]_vars

\* a non-200 answer followed by further requests, and an exception
C14_Witness ==
    /\ pc = "done" /\ Len(requests) = 3
    /\ requests[1][3] = "non200" /\ requests[2][3] = "ok" /\ requests[3][3] = "exception"
    /\ Len(content_map) + Len(discovered_pages) = 1

(***************************************************************************)
(* Claims about the interactive selection.                                 *)
(***************************************************************************)
FetchRequests == {i \in 1..Len(requests) : requests[i][1] = "fetch"}
\* the answers of the call of select_pages_interactive that returned
Accepted == script[round]
SelectReturned == mode = "interactive" /\ round > 0 /\ pc \notin {"select", "raised", "exit1"}

\* C6: once the selection has returned NONE or an empty list, the content map is
\* empty, no FETCH-phase request is issued and no stage of the pipeline runs.
C6_EmptySelectionStops ==
    (SelectReturned /\ (Accepted.choice = 4 \/ selected_urls = <<>>))
    => /\ content_map = <<>>
       /\ FetchRequests = {}
       /\ stages = <<>>
       /\ pc \in {"selected", "returned", "exit0"}

\* a confirmed keyword filter without a match over a non-empty discovery, run to its end
C6_Witness ==
    /\ SelectReturned /\ pc = "exit0"
    /\ Accepted.choice = 3 /\ Accepted.confirm
    /\ discovered_pages # <<>> /\ selected_urls = <<>>

\* C12: in interactive mode a FETCH-phase request is issued only after discover_pages
\* has ended and select_pages_interactive has returned, after every request of the
\* discovery, and only for a key of discovered_pages.
C12_FetchAfterSelection ==
    \A i \in FetchRequests :
       /\ mode = "interactive" /\ round > 0
       /\ pc \in {"fetch", "returned", "process", "embed", "save", "exit0", "raised", "exit1"}
       /\ ~LoopCond
       /\ \A j \in 1..Len(requests) : requests[j][1] = "crawl" => j < i
       /\ requests[i][2] \in Range(PageUrls)

\* a discovery that stopped at its budget with URLs pending, then a selection and its
\* fetches
C12_Witness ==
    /\ mode = "interactive" /\ pc = "exit0" /\ FetchRequests # {}
    /\ urls_to_visit # <<>>
    /\ \E j \in 1..Len(requests) : requests[j][1] = "crawl"

IsFetch(r) == r[1] = "fetch"
FetchLog == SelectSeq(requests, IsFetch)
FetchLogUrls == [i \in 1..Len(FetchLog) |-> FetchLog[i][2]]
IsOk(r) == r[3] = "ok"
FetchedOk == SelectSeq(FetchLog, IsOk)
C13_Exact ==
    /\ pc = "fetch" => FetchLogUrls \o fetch_queue = selected_urls
    /\ (mode = "interactive" /\ pc \in {"returned", "process", "embed", "save", "exit0"})
          => /\ FetchLogUrls = selected_urls
             /\ Cardinality(Range(FetchLogUrls)) = Len(FetchLogUrls)
             /\ content_map = [i \in 1..Len(FetchedOk) |-> FetchedOk[i][2]]
             /\ Range(content_map) \subseteq Range(selected_urls)
C13_Frame ==
    pc \in {"selected", "fetch"}
       => UNCHANGED <<visited_urls, discovered_pages, disallowed_paths, selected_urls>>

\* C13: the FETCH phase requests exactly the selected URLs, each once, in selection
\* order; the content map holds those that answered 200; no link of a fetched page is
\* followed; the visited set, the discovered pages and the rules stay as they are.
C13_FetchExactlySelected == [](C13_Exact) /\ [][C13_Frame]_vars

\* three selected pages fetched, one of them failing, the pages holding links
C13_Witness ==
    /\ pc = "returned" /\ Len(selected_urls) = 3 /\ Len(FetchLog) = 3
    /\ Len(content_map) = 2
    /\ \E i \in 1..3 : Hrefs(site, selected_urls[i]) # <<>>

\* k occurs in s, letters compared without regard to case
C20_SameLetter(c, d) ==
    c = d \/ \E i \in 1..26 : {c, d} = {UpperCase[i], LowerCase[i]}
C20_Has(s, k) ==
    \E i \in 0..(Len(s) - Len(k)) : \A j \in 1..Len(k) : C20_SameLetter(s[i + j], k[j])
C20_Hit(info, k) ==
    \/ C20_Has(UrlChars(info.url), k)
    \/ C20_Has(info.title, k)
    \/ C20_Has(info.description, k)
\* the URLs of the discovered pages the keyword occurs in, in discovery order
C20_Matches(k) ==
    LET hit(info) == C20_Hit(info, k)
        hits == SelectSeq(discovered_pages, hit)
    IN  [i \in 1..Len(hits) |-> hits[i].url]
\* the answers read by the step that is about to be taken
C20_Answer == script[round + 1]

\* C20: a selection returned by the keyword filter was confirmed and is exactly the
\* discovered pages whose URL, title or description contains the keyword without
\* regard to case; nothing is selected while the prompt is open; and a declined
\* confirmation leaves the selection empty, prints the table of discovered pages
\* again and waits at the prompt of a nested call, with the discovery untouched.
C20_State ==
    /\ (SelectReturned /\ Accepted.choice = 3)
          => /\ Accepted.confirm
             /\ selected_urls = C20_Matches(Accepted.text)
    /\ pc = "select" => /\ selected_urls = <<>>
                        /\ Len(tables) = sel_depth + 1
C20_Step ==
    (pc = "select" /\ round' = round + 1 /\ C20_Answer.choice = 3 /\ ~C20_Answer.confirm)
    => /\ selected_urls' = <<>>
       /\ pc' = "select"
       /\ sel_depth' = sel_depth + 1
       /\ tables' = Append(tables, PageUrls)
       /\ UNCHANGED <<discovered_pages, content_map, requests>>
C20_KeywordConfirmed == [](C20_State) /\ [][C20_Step]_vars

\* a filter on "a" (two or more matches) declined, then a filter on "TA" confirmed:
\* only the page titled "Ta" is selected, fetched, and the run ends
C20_Witness ==
    /\ pc = "exit0" /\ round = 2
    /\ script[1] = Input(3, kw_a, FALSE) /\ Accepted = Input(3, kw_TA, TRUE)
    /\ Len(C20_Matches(kw_a)) >= 2
    /\ selected_urls = <<A>>
    /\ Len(tables) = 2 /\ tables[2] = PageUrls /\ Len(PageUrls) >= 2
    /\ content_map # <<>>
\* a match through the description alone
C20_WitnessDescription ==
    /\ SelectReturned /\ Accepted = Input(3, kw_AB, TRUE)
    /\ selected_urls = <<A>> /\ Len(discovered_pages) >= 2
    /\ ~C20_Has(UrlChars(A), kw_AB) /\ ~C20_Has(PageInfo(A).title, kw_AB)

\* C21: an answer to "Choose an option" other than 1, 2, 3 or 4 neither fails nor
\* returns a selection: the table of discovered pages is printed again and the run
\* waits at the prompt once more, with the discovered pages and the visited set as
\* they were.
C21_Invalid == C20_Answer.choice \notin {1, 2, 3, 4}
C21_Step ==
    (pc = "select" /\ round' = round + 1 /\ C21_Invalid)
    => /\ pc' = "select"
       /\ selected_urls' = <<>>
       /\ tables' = Append(tables, PageUrls)
       /\ UNCHANGED <<discovered_pages, visited_urls, content_map, requests>>
C21_InvalidChoiceRetries == [][C21_Step]_vars

\* an invalid choice was answered over a non-empty discovery, and the run went on to
\* a selection made at the next prompts
C21_Witness ==
    /\ round = 3 /\ script[1].choice = 7 /\ pc = "returned"
    /\ Len(tables) = 3 /\ tables[1] = tables[2] /\ Len(tables[2]) >= 2
    /\ selected_urls = PageUrls /\ visited_urls # {}

\* the index string read position by position
C7_AllDigits(t) == t # <<>> /\ \A i \in 1..Len(t) : IsDigit(t[i])
RECURSIVE C7_Pow10(_)
C7_Pow10(k) == IF k = 0 THEN 1 ELSE 10 * C7_Pow10(k - 1)
RECURSIVE C7_Value(_)
C7_Value(t) ==
    IF t = <<>> THEN 0
    ELSE DigitVal(t[1]) * C7_Pow10(Len(t) - 1) + C7_Value(SubSeq(t, 2, Len(t)))
C7_Cuts(t) == {0, Len(t) + 1} \cup {i \in 1..Len(t) : t[i] = ","}
C7_Items(t) ==
    { SubSeq(t, p + 1, q - 1) : <<p, q>> \in
        { c \in C7_Cuts(t) \X C7_Cuts(t) :
            c[1] < c[2] /\ \A m \in C7_Cuts(t) : ~(c[1] < m /\ m < c[2]) } }
C7_IsRange(item, k) ==
    /\ item[k] = "-"
    /\ C7_AllDigits(SubSeq(item, 1, k - 1))
    /\ C7_AllDigits(SubSeq(item, k + 1, Len(item)))
C7_WellFormed(t) ==
    \A item \in C7_Items(t) :
        C7_AllDigits(item) \/ \E k \in 1..Len(item) : C7_IsRange(item, k)
C7_Denotes(item, i) ==
    \/ C7_AllDigits(item) /\ C7_Value(item) = i
    \/ \E k \in 1..Len(item) :
          /\ C7_IsRange(item, k)
          /\ C7_Value(SubSeq(item, 1, k - 1)) <= i
          /\ i <= C7_Value(SubSeq(item, k + 1, Len(item)))
C7_Expected(t, n) == { i \in 1..n : \E item \in C7_Items(t) : C7_Denotes(item, i) }

\* C7: BY_INDEX over n pages p1..pn with a list of indices and ranges a-b returns
\* exactly the pages p_i with i in the list or in a range and 1 <= i <= n, each once,
\* and no error for indices outside 1..n.
C7_ByIndexExact ==
    (round > 0 /\ Accepted.choice = 2 /\ C7_WellFormed(Accepted.text))
    => /\ pc = "selected"
       /\ Range(selected_urls) =
             { PageUrls[i] : i \in C7_Expected(Accepted.text, Len(discovered_pages)) }
       /\ Len(selected_urls) = Cardinality(Range(selected_urls))

\* "1,3,5-7" over 8 pages gives {p1, p3, p5, p6, p7}
C7_Witness ==
    /\ pc = "selected" /\ round = 1
    /\ Accepted = Input(2, ExampleString, FALSE)
    /\ Len(discovered_pages) = 8
    /\ Range(selected_urls) = {PageN(1), PageN(3), PageN(5), PageN(6), PageN(7)}
    /\ Len(selected_urls) = 5

\* an index outside 1..n is dropped: "2-9"-like input keeps only what is in range
C7_WitnessOutOfRange ==
    /\ pc = "selected" /\ round = 1
    /\ Accepted = Input(2, <<"0", "-", "2", "3">>, FALSE)
    /\ Len(discovered_pages) = 3 /\ Len(selected_urls) = 3

(***************************************************************************)
(* EmbeddingGenerator.generate_embeddings                                  *)
(***************************************************************************)
Min(a, b) == IF a < b THEN a ELSE b

\* s[a:b] for 0 <= a, 0 <= b
SliceMutFromOne(s, a, b) == SubSeq(s, a + 2, Min(b, Len(s)))
Slice(s, a, b) == SubSeq(s, a + 1, Min(b, Len(s)))

\* the vector model.encode computes for a chunk; encode keeps the order of its input
Vec(chunk) == [of |-> chunk]
Encode(batch) == [i \in 1..Len(batch) |-> Vec(batch[i])]

\* the pages a processed-content map can hold and their metadata (_extract_metadata)
Str(t) == [str |-> t]
Num(n) == [num |-> n]
ContentUrls == <<A, B, C, P>>
\* the keys of the dicts of the pipeline
k_chunks == <<"c", "h", "u", "n", "k", "s">>
k_metadata == <<"m", "e", "t", "a", "d", "a", "t", "a">>
k_chunk_id == <<"c", "h", "u", "n", "k", "_", "i", "d">>
k_chunk_text == <<"c", "h", "u", "n", "k", "_", "t", "e", "x", "t">>
k_url == <<"u", "r", "l">>
k_title == <<"t", "i", "t", "l", "e">>
k_description == <<"d", "e", "s", "c", "r", "i", "p", "t", "i", "o", "n">>
\* _extract_metadata: a dict, its items in insertion order
Meta(u) ==
    [dict |->
        << <<k_url, Str(UrlChars(u))>> >>
          \o (IF PageTitle(u) # <<>> THEN << <<k_title, Str(PageTitle(u))>> >> ELSE <<>>)
          \o (IF PageDescription(u) # <<>>
              THEN << <<k_description, Str(PageDescription(u))>> >> ELSE <<>>)]

\* the decimal digits of n
RECURSIVE Numeral(_)
Numeral(n) == IF n < 10 THEN << Digits[n + 1] >> ELSE Append(Numeral(n \div 10), Digits[(n % 10) + 1])

\* the text of chunk k of the j-th URL
ChunkText(j, k) == <<"c">> \o Numeral(j) \o <<".">> \o Numeral(k)

\* the map process_content returns for the given chunk counts
Processed(counts) ==
    [j \in 1..Len(counts) |->
        [url |-> ContentUrls[j],
         chunks |-> [k \in 1..counts[j] |-> ChunkText(j, k)],
         metadata |-> Meta(ContentUrls[j])]]

CountLists == UNION { [1..n -> 1..MaxChunks] : n \in 0..MaxUrls }

InitEmbed ==
    /\ mode = "standard" /\ site = [u \in SitePages |-> <<>>] /\ start_urls = <<A>>
    /\ max_pages = 0 /\ disallowed_paths = <<>> /\ RobotsDone(disallowed_paths) /\ max_depth = <<>> /\ delay = DefaultDelay
    /\ urls_to_visit = <<>> /\ visited_urls = {} /\ content_map = <<>>
    /\ discovered_pages = <<>> /\ requests = <<>> /\ sleep_log = <<>> /\ allowed_log = {} /\ enq_order = <<>> /\ pc = "idle"
    /\ script = <<>> /\ round = 0 /\ sel_depth = 0 /\ tables = <<>> /\ selected_urls = <<>>
    /\ fetch_queue = <<>> /\ stages = <<>>
    /\ ProcIdle /\ StoIdle
    /\ \/ \E counts \in CountLists, b \in 1..MaxBatch :
             /\ processed_content = Processed(counts)
             /\ batch_size = b
       \/ /\ processed_content = Processed(<<100, 100, 57>>)
          /\ batch_size = DefaultBatchSize
    /\ all_chunks = <<>> /\ url_to_chunk_indices = <<>> /\ batch_i = 0
    /\ embeddings = <<>> /\ batches = <<>> /\ results = <<>>
    /\ epc = "collect"

\* the loop "Collect all chunks for batch processing"
RECURSIVE Collect(_, _, _)
Collect(entries, chunks, indices) ==
    IF entries = <<>> THEN [all_chunks |-> chunks, indices |-> indices]
    ELSE LET start_idx == Len(chunks)
             extended == chunks \o Head(entries).chunks
             end_idx == Len(extended)
         IN  Collect(Tail(entries), extended,
                     Append(indices, [url |-> Head(entries).url,
                                      start_idx |-> start_idx, end_idx |-> end_idx]))

EmbedCollect ==
    /\ UNCHANGED <<procVars, stoVars>>
    /\ epc = "collect"
    /\ LET c == Collect(processed_content, <<>>, <<>>)
       IN  /\ all_chunks' = c.all_chunks
           /\ url_to_chunk_indices' = c.indices
    /\ embeddings' = <<>>
    /\ batch_i' = 0
    /\ epc' = "batch"
    /\ UNCHANGED <<crawlVars, selVars, processed_content, batch_size, batches, results>>

\* range(0, len(all_chunks), batch_size): the value after i
NextIndexMutSkip(i, b) == i + b + 1
NextIndex(i, b) == i + b

\* one iteration of the batch loop
EmbedBatch ==
    /\ UNCHANGED <<procVars, stoVars>>
    /\ epc = "batch" /\ batch_i < Len(all_chunks)
    /\ LET batch == Slice(all_chunks, batch_i, batch_i + batch_size)
       IN  /\ batches' = Append(batches, batch)
           /\ embeddings' = embeddings \o Encode(batch)
    /\ batch_i' = NextIndex(batch_i, batch_size)
    /\ UNCHANGED <<crawlVars, selVars, processed_content, batch_size, all_chunks,
                   url_to_chunk_indices, results, epc>>

\* the loop "Reorganize results by URL" and the return
EmbedReturn ==
    /\ UNCHANGED <<procVars, stoVars>>
    /\ epc = "batch" /\ ~(batch_i < Len(all_chunks))
    /\ results' =
          [j \in 1..Len(processed_content) |->
              LET e == processed_content[j]
                  r == CHOOSE x \in Range(url_to_chunk_indices) : x.url = e.url
              IN  [url |-> e.url, chunks |-> e.chunks,
                   embeddings |-> Slice(embeddings, r.start_idx, r.end_idx),
                   metadata |-> e.metadata]]
    /\ epc' = "done"
    /\ UNCHANGED <<crawlVars, selVars, processed_content, batch_size, all_chunks,
                   url_to_chunk_indices, batch_i, embeddings, batches>>

NextEmbed == EmbedCollect \/ EmbedBatch \/ EmbedReturn

SpecEmbed == InitEmbed /\ [][NextEmbed]_vars

(***************************************************************************)
(* Claims about the embedder.                                              *)
(***************************************************************************)
\* the concatenation of the sequences ss[lo..hi], halving the range
RECURSIVE FlattenRange(_, _, _)
FlattenRange(ss, lo, hi) ==
    IF lo > hi THEN <<>>
    ELSE IF lo = hi THEN ss[lo]
    ELSE LET mid == (lo + hi) \div 2
         IN  FlattenRange(ss, lo, mid) \o FlattenRange(ss, mid + 1, hi)
Flatten(ss) == FlattenRange(ss, 1, Len(ss))
GlobalChunks == Flatten([j \in 1..Len(processed_content) |-> processed_content[j].chunks])

\* C8: every URL gets as many embeddings as it has chunks, the k-th being the vector
\* of its k-th chunk; the recorded ranges are contiguous, disjoint and cover
\* 0..total-1, so the embedding count equals the chunk count.
C8_EmbeddingsAligned ==
    /\ epc \in {"batch", "done"} =>
          /\ Len(url_to_chunk_indices) = Len(processed_content)
          /\ \A j \in 1..Len(url_to_chunk_indices) :
                LET r == url_to_chunk_indices[j]
                IN  /\ r.url = processed_content[j].url
                    /\ r.start_idx = (IF j = 1 THEN 0 ELSE url_to_chunk_indices[j - 1].end_idx)
                    /\ r.end_idx = r.start_idx + Len(processed_content[j].chunks)
                    /\ j = Len(url_to_chunk_indices) => r.end_idx = Len(GlobalChunks)
    /\ epc = "done" =>
          /\ Len(results) = Len(processed_content)
          /\ \A j \in 1..Len(results) :
                /\ results[j].url = processed_content[j].url
                /\ results[j].chunks = processed_content[j].chunks
                /\ Len(results[j].embeddings) = Len(results[j].chunks)
                /\ \A k \in 1..Len(results[j].chunks) :
                      results[j].embeddings[k] = Vec(results[j].chunks[k])
          /\ Len(embeddings) = Len(GlobalChunks)

\* several URLs whose chunks share batches: 3 URLs, 7 chunks, batches of 2
C8_Witness ==
    /\ epc = "done" /\ Len(results) = 3 /\ batch_size = 2
    /\ Len(results[1].embeddings) = 3 /\ Len(results[2].embeddings) = 1
    /\ Len(results[3].embeddings) = 3

\* C9: N chunks and batch size B >= 1 give ceil(N/B) encode calls, each of at most
\* B chunks, whose concatenation in call order is the global chunk sequence.
C9_BatchCount ==
    (epc = "done" /\ batch_size >= 1) =>
       /\ Len(batches) = (Len(GlobalChunks) + batch_size - 1) \div batch_size
       /\ \A b \in 1..Len(batches) : Len(batches[b]) >= 1 /\ Len(batches[b]) <= batch_size
       /\ Flatten(batches) = GlobalChunks

\* 257 chunks with batch size 32: 9 batches, 257 embeddings
C9_Witness ==
    /\ epc = "done" /\ batch_size = 32
    /\ Len(GlobalChunks) = 257 /\ Len(batches) = 9 /\ Len(embeddings) = 257

\* no chunk, no batch
C9_WitnessEmpty ==
    /\ epc = "done" /\ GlobalChunks = <<>> /\ batches = <<>>

(***************************************************************************)
(* json.dump / json.load on the values the sidecar holds: strings,         *)
(* non-negative integers, lists and dicts (a dict is its items in order).  *)
(* The text is a sequence of characters.  indent=2 is kept as one newline  *)
(* per line break; the reader skips whitespace between tokens.             *)
(***************************************************************************)
List(items) == [list |-> items]
Dict(items) == [dict |-> items]
IsStr(v) == "str" \in DOMAIN v
IsNum(v) == "num" \in DOMAIN v
IsList(v) == "list" \in DOMAIN v

Escape(c) ==
    IF c = "\"" THEN <<"\\", "\"">>
    ELSE IF c = "\\" THEN <<"\\", "\\">>
    ELSE IF c = "\n" THEN <<"\\", "n">>
    ELSE << c >>
DumpStr(t) == <<"\"">> \o Flatten([i \in 1..Len(t) |-> Escape(t[i])]) \o <<"\"">>

RECURSIVE JsonDump(_)
JsonDump(v) ==
    IF IsStr(v) THEN DumpStr(v.str)
    ELSE IF IsNum(v) THEN Numeral(v.num)
    ELSE IF IsList(v)
    THEN IF v.list = <<>> THEN <<"[", "]">>
         ELSE <<"[", "\n">>
              \o Join([i \in 1..Len(v.list) |-> JsonDump(v.list[i])], <<",", "\n">>)
              \o <<"\n", "]">>
    ELSE IF v.dict = <<>> THEN <<"{", "}">>
         ELSE <<"{", "\n">>
              \o Join([i \in 1..Len(v.dict) |->
                         DumpStr(v.dict[i][1]) \o <<":", " ">> \o JsonDump(v.dict[i][2])],
                      <<",", "\n">>)
              \o <<"\n", "}">>

\* the reader: each step returns the value read and the text after it
Read(v, rest) == [v |-> v, rest |-> rest]
RECURSIVE SkipWs(_)
SkipWs(t) == IF t # <<>> /\ Head(t) \in {" ", "\n"} THEN SkipWs(Tail(t)) ELSE t

\* the backslashes that stand right before position i of t
RECURSIVE BackslashesBefore(_, _)
BackslashesBefore(t, i) ==
    IF i > 1 /\ t[i - 1] = "\\" THEN 1 + BackslashesBefore(t, i - 1) ELSE 0
\* position i is escaped by the backslash before it / is such a backslash
Escaped(t, i) == BackslashesBefore(t, i) % 2 = 1
Introducer(t, i) == t[i] = "\\" /\ ~Escaped(t, i)
UnescapeMutKeep(c) == c
Unescape(c) == IF c = "n" THEN "\n" ELSE c
\* the characters the string body t[lo..hi] stands for, halving the range
RECURSIVE Unescaped(_, _, _)
Unescaped(t, lo, hi) ==
    IF lo > hi THEN <<>>
    ELSE IF lo = hi
    THEN IF Introducer(t, lo) THEN <<>>
         ELSE IF Escaped(t, lo) THEN << Unescape(t[lo]) >> ELSE << t[lo] >>
    ELSE LET mid == (lo + hi) \div 2
         IN  Unescaped(t, lo, mid) \o Unescaped(t, mid + 1, hi)
\* a string literal, t following its opening quote
ScanStr(t) ==
    LET quotes == {i \in 1..Len(t) : t[i] = "\"" /\ ~Escaped(t, i)}
        close == CHOOSE i \in quotes : \A m \in quotes : i <= m
    IN  Read(Unescaped(t, 1, close - 1), SubSeq(t, close + 1, Len(t)))

RECURSIVE ScanNum(_, _)
ScanNum(t, acc) ==
    IF t # <<>> /\ IsDigit(Head(t)) THEN ScanNum(Tail(t), 10 * acc + DigitVal(Head(t)))
    ELSE Read(acc, t)

RECURSIVE ReadValue(_), ReadItems(_, _), ReadMembers(_, _)
ReadValue(text) ==
    LET t == SkipWs(text)
    IN  IF Head(t) = "\"" THEN LET r == ScanStr(Tail(t)) IN Read(Str(r.v), r.rest)
        ELSE IF Head(t) = "[" THEN ReadItems(SkipWs(Tail(t)), <<>>)
        ELSE IF Head(t) = "{" THEN ReadMembers(SkipWs(Tail(t)), <<>>)
        ELSE LET r == ScanNum(t, 0) IN Read(Num(r.v), r.rest)
ReadItems(t, acc) ==           \* t follows "[" or ",", whitespace skipped
    IF Head(t) = "]" THEN Read(List(acc), Tail(t))
    ELSE LET r == ReadValue(t)
             u == SkipWs(r.rest)
         IN  IF Head(u) = "," THEN ReadItems(SkipWs(Tail(u)), Append(acc, r.v))
             ELSE Read(List(Append(acc, r.v)), Tail(u))
ReadMembers(t, acc) ==         \* t follows "{" or ",", whitespace skipped
    IF Head(t) = "}" THEN Read(Dict(acc), Tail(t))
    ELSE LET k == ScanStr(Tail(t))
             r == ReadValue(Tail(SkipWs(k.rest)))
             u == SkipWs(r.rest)
         IN  IF Head(u) = "," THEN ReadMembers(SkipWs(Tail(u)), Append(acc, <<k.v, r.v>>))
             ELSE Read(Dict(Append(acc, <<k.v, r.v>>)), Tail(u))
JsonLoad(text) == ReadValue(text).v

\* d[key] on a dict
DictGet(d, key) == (CHOOSE i \in Range(d.dict) : i[1] = key)[2]
\* d[key] = value on a dict
DictPut(d, key, value) ==
    IF \E i \in 1..Len(d.dict) : d.dict[i][1] = key
    THEN Dict([i \in 1..Len(d.dict) |->
                 IF d.dict[i][1] = key THEN <<key, value>> ELSE d.dict[i]])
    ELSE Dict(Append(d.dict, <<key, value>>))

(***************************************************************************)
(* VectorStorage.save and VectorStorage.load                               *)
(***************************************************************************)

\* the page metadata dicts of the data handed to save
StoreMeta(j) ==
    Dict(<< <<k_url, Str(UrlChars(ContentUrls[j]))>> >>
         \o (IF PageTitle(ContentUrls[j]) # <<>>
             THEN << <<k_title, Str(PageTitle(ContentUrls[j]))>> >> ELSE <<>>))

\* the chunk texts: quotes, brackets, commas, a backslash, a newline, digits, and a
\* text longer than the excerpt
StoreTexts ==
    << <<"a", " ", "b">>,
       <<"\"", "]", ",", "}">>,
       <<"\\", "\n", "1", "\\", "n">>,
       [i \in 1..(ExcerptLen + 1) |-> "z"] >>
StoreChunk(j, k) == StoreTexts[((j + 2 * k) % 4) + 1]

StoreData(counts) ==
    [j \in 1..Len(counts) |->
        [url |-> ContentUrls[j],
         chunks |-> [k \in 1..counts[j] |-> StoreChunk(j, k)],
         embeddings |-> [k \in 1..counts[j] |-> Vec(StoreChunk(j, k))],
         metadata |-> StoreMeta(j)]]
\* data with the last embedding of its entry j missing
Mismatched(data, j) ==
    [data EXCEPT ![j].embeddings = SubSeq(@, 1, Len(@) - 1)]
WellFormedInputs ==
    { StoreData(counts) :
        counts \in UNION { [1..n -> 1..MaxStoreChunks] : n \in 0..MaxStoreUrls } }
StoreInputs ==
    WellFormedInputs \cup { Mismatched(d, Len(d)) : d \in WellFormedInputs \ { <<>> } }

\* the per-chunk metadata of chunk i (0-based) of an entry
ChunkIdMutOneBased(i) == i + 1
ChunkId(i) == i
ChunkMetadata(metadata, i, chunk) ==
    DictPut(DictPut(metadata, k_chunk_id, Num(ChunkId(i))),
            k_chunk_text, Str(Excerpt(chunk, ExcerptLen)))

\* the flattening loops of save
FlatOf(data, field) ==
    Flatten([j \in 1..Len(data) |->
        [k \in 1..Min(Len(data[j].chunks), Len(data[j].embeddings)) |->
            IF field = "chunks" THEN data[j].chunks[k]
            ELSE IF field = "embeddings" THEN data[j].embeddings[k]
            ELSE ChunkMetadata(data[j].metadata, k - 1, data[j].chunks[k])]])

\* metadata_obj of save, written by json.dump
SidecarText(chunks, metadata) ==
    JsonDump(Dict(<< <<k_chunks, List([i \in 1..Len(chunks) |-> Str(chunks[i])])>>,
                     <<k_metadata, List(metadata)>> >>))

\* the disk holds nothing, or what an earlier run left: both files of one save, or
\* the index alone
InitStore ==
    /\ mode = "standard" /\ site = [u \in SitePages |-> <<>>] /\ start_urls = <<A>>
    /\ max_pages = 0 /\ disallowed_paths = <<>> /\ RobotsDone(disallowed_paths) /\ max_depth = <<>> /\ delay = DefaultDelay
    /\ urls_to_visit = <<>> /\ visited_urls = {} /\ content_map = <<>>
    /\ discovered_pages = <<>> /\ requests = <<>> /\ sleep_log = <<>> /\ allowed_log = {} /\ enq_order = <<>> /\ pc = "idle"
    /\ script = <<>> /\ round = 0 /\ sel_depth = 0 /\ tables = <<>> /\ selected_urls = <<>>
    /\ fetch_queue = <<>> /\ stages = <<>>
    /\ ProcIdle /\ EmbIdle
    /\ embeddings_data = <<>> /\ flat_chunks = <<>> /\ flat_embeddings = <<>>
    /\ flat_metadata = <<>>
    /\ \/ index_file = <<>> /\ sidecar_file = <<>>
       \/ \E old \in WellFormedInputs \ { <<>> } :
             /\ index_file = << FlatOf(old, "embeddings") >>
             /\ sidecar_file \in { <<>>, << SidecarText(FlatOf(old, "chunks"),
                                                        FlatOf(old, "metadata")) >> }
    /\ save_status = "none" /\ loaded = <<>> /\ spc = "idle"

StoreAtRest == spc \in {"idle", "saved", "save_failed", "loaded", "load_failed"}

\* save(embeddings_data), called once by a run (cli-module.py:154), up to the
\* creation of the index: the flattening, then
\* np.array(...).shape[1], which raises IndexError when there is no embedding
SaveBegin(data) ==
    /\ spc = "idle"
    /\ embeddings_data' = data
    /\ flat_chunks' = FlatOf(data, "chunks")
    /\ flat_embeddings' = FlatOf(data, "embeddings")
    /\ flat_metadata' = FlatOf(data, "metadata")
    /\ IF flat_embeddings' = <<>>
       THEN spc' = "save_failed" /\ save_status' = "failed"
       ELSE spc' = "write_index" /\ save_status' = "none"
    /\ UNCHANGED <<index_file, sidecar_file, loaded>>
SaveFlatten(data) ==
    /\ SaveBegin(data)
    /\ UNCHANGED <<crawlVars, selVars, procVars, embVars>>

\* faiss.write_index(index, str(self.config.index_path))
SaveWriteIndex ==
    /\ spc = "write_index"
    /\ index_file' = << flat_embeddings >>
    /\ spc' = "write_sidecar"
    /\ UNCHANGED <<crawlVars, selVars, procVars, embVars, embeddings_data, flat_chunks,
                   flat_embeddings, flat_metadata, sidecar_file, save_status, loaded>>

\* json.dump(metadata_obj, f, ensure_ascii=False, indent=2)
SaveWriteSidecar ==
    /\ spc = "write_sidecar"
    /\ sidecar_file' = << SidecarText(flat_chunks, flat_metadata) >>
    /\ spc' = "saved" /\ save_status' = "ok"
    /\ UNCHANGED <<crawlVars, selVars, procVars, embVars, embeddings_data, flat_chunks,
                   flat_embeddings, flat_metadata, index_file, loaded>>

\* open(self.config.metadata_path, "w") raises (the path cannot be written), or the
\* process dies after write_index: the sidecar is as it was and save does not return
SaveSidecarFails ==
    /\ spc = "write_sidecar"
    /\ spc' = "save_failed" /\ save_status' = "failed"
    /\ UNCHANGED <<crawlVars, selVars, procVars, embVars, embeddings_data, flat_chunks,
                   flat_embeddings, flat_metadata, index_file, sidecar_file, loaded>>

\* load()
LoadMutRemoves ==
    /\ StoreAtRest /\ spc \notin {"loaded", "load_failed"}
    /\ IF index_file = <<>> \/ sidecar_file = <<>>
       THEN /\ spc' = "load_failed"
            /\ loaded' = <<>>
            /\ index_file' = <<>> /\ sidecar_file' = <<>>
       ELSE /\ LET metadata_obj == JsonLoad(sidecar_file[1])
               IN  loaded' = << [index |-> index_file[1],
                                 chunks |-> DictGet(metadata_obj, k_chunks),
                                 metadata |-> DictGet(metadata_obj, k_metadata)] >>
            /\ spc' = "loaded"
            /\ UNCHANGED <<index_file, sidecar_file>>
    /\ UNCHANGED <<crawlVars, selVars, procVars, embVars, embeddings_data, flat_chunks,
                   flat_embeddings, flat_metadata, save_status>>
Load ==
    /\ StoreAtRest /\ spc \notin {"loaded", "load_failed"}
    /\ IF index_file = <<>> \/ sidecar_file = <<>>
       THEN /\ spc' = "load_failed"
            /\ loaded' = <<>>
       ELSE /\ LET metadata_obj == JsonLoad(sidecar_file[1])
               IN  loaded' = << [index |-> index_file[1],
                                 chunks |-> DictGet(metadata_obj, k_chunks),
                                 metadata |-> DictGet(metadata_obj, k_metadata)] >>
            /\ spc' = "loaded"
    /\ UNCHANGED <<crawlVars, selVars, procVars, embVars, embeddings_data, flat_chunks,
                   flat_embeddings, flat_metadata, index_file, sidecar_file,
                   save_status>>

NextStore ==
    \/ \E data \in StoreInputs : SaveFlatten(data)
    \/ SaveWriteIndex
    \/ SaveWriteSidecar
    \/ SaveSidecarFails
    \/ Load

SpecStore == InitStore /\ [][NextStore]_vars

(***************************************************************************)
(* Claims about the storage.                                               *)
(***************************************************************************)
\* C10: after a successful save(X), load() returns a chunk list and a metadata list
\* equal element by element, in order, to the flattened sequences save built.
C10_RoundTrip ==
    (spc = "loaded" /\ save_status = "ok") =>
       /\ loaded # <<>>
       /\ IsList(loaded[1].chunks) /\ IsList(loaded[1].metadata)
       /\ Len(loaded[1].chunks.list) = Len(flat_chunks)
       /\ \A i \in 1..Len(flat_chunks) : loaded[1].chunks.list[i] = Str(flat_chunks[i])
       /\ Len(loaded[1].metadata.list) = Len(flat_metadata)
       /\ \A i \in 1..Len(flat_metadata) : loaded[1].metadata.list[i] = flat_metadata[i]

\* two URLs with two chunks each, among them the texts with quotes, backslashes and a
\* newline, saved and loaded
C10_Witness ==
    /\ spc = "loaded" /\ save_status = "ok"
    /\ Len(embeddings_data) = 2 /\ Len(flat_chunks) = 4
    /\ Len(loaded[1].chunks.list) = 4
    /\ loaded[1].chunks.list[2] = Str(<<"\"", "]", ",", "}">>)

(***************************************************************************)
(* ContentProcessor: _clean_text, process_html, process_content.  A page   *)
(* is the text html2text makes of it after the unwanted elements are       *)
(* removed.  The texts hold no "@", so the e-mail substitution leaves them *)
(* as they are.                                                            *)
(***************************************************************************)
\* the characters of t at the positions lo..hi that Keep holds of, Blank ones as " "
RECURSIVE Squeezed(_, _, _)
Squeezed(t, lo, hi) ==
    IF lo > hi THEN <<>>
    ELSE IF lo = hi
    THEN IF ~IsSpace(t[lo]) THEN << t[lo] >>
         ELSE IF /\ lo > 1 /\ ~IsSpace(t[lo - 1])
                 /\ \E j \in (lo + 1)..Len(t) : ~IsSpace(t[j])
              THEN << " " >> ELSE <<>>
    ELSE LET mid == (lo + hi) \div 2
         IN  Squeezed(t, lo, mid) \o Squeezed(t, mid + 1, hi)
\* re.sub(r'\s+', ' ', text).strip()
NormalizeSpace(t) == Squeezed(t, 1, Len(t))

\* the test of the list comprehension of _clean_text
KeepLineMutAtLeast(line, min) == Len(Strip(line)) >= min
KeepLine(line, min) == Len(Strip(line)) > min

\* _clean_text(text)
CleanText(text, min) ==
    LET lines == Lines(NormalizeSpace(text))
        kept(line) == KeepLine(line, min)
    IN  Join(SelectSeq(lines, kept), <<"\n">>)

\* self.text_splitter.split_text(text): pieces of at most size characters, each
\* starting size - overlap characters after the one before; no piece for no text
SplitText(t, size, overlap) ==
    IF t = <<>> THEN <<>>
    ELSE LET step == size - overlap
             n == IF Len(t) <= size THEN 1 ELSE ((Len(t) - size + step - 1) \div step) + 1
         IN  [k \in 1..n |-> SubSeq(t, (k - 1) * step + 1, Min(Len(t), (k - 1) * step + size))]

\* process_html(html_content, url): the chunks it returns
TooShortMutNever(cleaned_text, min) == FALSE
TooShort(cleaned_text, min) == Len(cleaned_text) < min
ProcessHtml(text, min, size, overlap) ==
    LET cleaned_text == CleanText(text, min)
    IN  IF TooShort(cleaned_text, min) THEN <<>>
        ELSE SplitText(cleaned_text, size, overlap)

\* the pages: nothing, white space only, 30, 50 and 51 characters of words, two
\* paragraphs between blank lines, and three characters
Words(n) == [i \in 1..n |-> IF i % 7 = 4 THEN " " ELSE "x"]
PageTexts ==
    { <<>>,
      <<" ", "\n", " ">>,
      Words(30),
      Words(50),
      Words(51),
      <<"\n", " ">> \o Words(30) \o <<" ", "\n", "\n">> \o Words(25) \o <<"\n">>,
      <<"a", " ", " ", "b">> }
ContentFiles ==
    [readable : {TRUE}, text : PageTexts] \cup { [readable |-> FALSE, text |-> <<>>] }
ProcessorConfigs ==
    { [min |-> m, size |-> ChunkSize, overlap |-> ChunkOverlap] : m \in {0, 3, MinContentLength} }
      \cup { [min |-> MinContentLength, size |-> 20, overlap |-> 5] }

InitProcess ==
    /\ mode = "standard" /\ site = [u \in SitePages |-> <<>>] /\ start_urls = <<A>>
    /\ max_pages = MaxBudget /\ disallowed_paths = <<>> /\ RobotsDone(disallowed_paths) /\ max_depth = <<>> /\ delay = DefaultDelay
    /\ urls_to_visit = <<>> /\ visited_urls = {}
    /\ discovered_pages = <<>> /\ requests = <<>> /\ sleep_log = <<>> /\ allowed_log = {} /\ enq_order = <<>> /\ pc = "process"
    /\ script = <<>> /\ round = 0 /\ sel_depth = 0 /\ tables = <<>> /\ selected_urls = <<>>
    /\ fetch_queue = <<>> /\ stages = <<>>
    /\ EmbIdle /\ StoIdle
    /\ \E n \in 0..MaxFiles :
          /\ content_map = SubSeq(ContentUrls, 1, n)
          /\ files \in [1..n -> ContentFiles]
    /\ \E c \in ProcessorConfigs :
          /\ min_content_length = c.min
          /\ chunk_size = c.size
          /\ chunk_overlap = c.overlap
    /\ proc_i = 0 /\ proc_log = <<>> /\ proc_results = <<>> /\ ppc = "loop"

\* if chunks:
HasChunksMutAlways(chunks) == TRUE
HasChunks(chunks) == chunks # <<>>

\* one iteration of `for url, file_path in content_map.items()`
ProcessStep ==
    /\ ppc = "loop" /\ proc_i < Len(content_map)
    /\ proc_i' = proc_i + 1
    /\ LET url == content_map[proc_i + 1]
           file == files[proc_i + 1]
       IN  IF ~file.readable
           THEN /\ proc_log' = Append(proc_log, [url |-> url, raised |-> TRUE, chunks |-> <<>>])
                /\ UNCHANGED proc_results
           ELSE LET chunks == ProcessHtml(file.text, min_content_length,
                                          chunk_size, chunk_overlap)
                IN  /\ proc_log' = Append(proc_log,
                                          [url |-> url, raised |-> FALSE, chunks |-> chunks])
                    /\ proc_results' =
                          IF HasChunks(chunks)
                          THEN Append(proc_results,
                                      [url |-> url, chunks |-> chunks, metadata |-> Meta(url)])
                          ELSE proc_results
    /\ UNCHANGED <<crawlVars, selVars, embVars, stoVars, files, min_content_length,
                   chunk_size, chunk_overlap, ppc>>

\* return results
ProcessReturn ==
    /\ ppc = "loop" /\ proc_i = Len(content_map)
    /\ ppc' = "done"
    /\ UNCHANGED <<crawlVars, selVars, embVars, stoVars, files, min_content_length,
                   chunk_size, chunk_overlap, proc_i, proc_log, proc_results>>

NextProcess == ProcessStep \/ ProcessReturn

SpecProcess == InitProcess /\ [][NextProcess]_vars

(***************************************************************************)
(* Claims about the processor.                                             *)
(***************************************************************************)
ResultUrls == {proc_results[i].url : i \in 1..Len(proc_results)}
\* the length of the text with its white space collapsed and trimmed
C11_Collapsed(text) ==
    Cardinality({i \in 1..Len(text) : ~IsSpace(text[i])})
      + Cardinality({i \in 2..Len(text) :
                        /\ IsSpace(text[i]) /\ ~IsSpace(text[i - 1])
                        /\ \E j \in (i + 1)..Len(text) : ~IsSpace(text[j])})

\* C11: a URL is in the processed-content map exactly when process_html returned at
\* least one chunk for it; a page whose cleaned text is shorter than
\* min_content_length gives no chunk and is absent, never present with no chunk.
C11_InMapIffChunks ==
    /\ \A i \in 1..Len(proc_log) :
          /\ proc_log[i].url = content_map[i]
          /\ (proc_log[i].url \in ResultUrls)
                <=> (~proc_log[i].raised /\ proc_log[i].chunks # <<>>)
          /\ (files[i].readable /\ C11_Collapsed(files[i].text) < min_content_length)
                => (proc_log[i].chunks = <<>> /\ proc_log[i].url \notin ResultUrls)
    /\ \A j \in 1..Len(proc_results) :
          /\ proc_results[j].chunks # <<>>
          /\ \E i \in 1..Len(proc_log) :
                proc_log[i].url = proc_results[j].url
                  /\ proc_log[i].chunks = proc_results[j].chunks

\* 30 characters against the threshold 50: no chunk, absent, next to a page that is kept
C11_Witness ==
    /\ ppc = "done" /\ Len(content_map) = 2 /\ min_content_length = 50
    /\ files[1].readable /\ C11_Collapsed(files[1].text) = 30
    /\ proc_log[1].chunks = <<>>
    /\ Len(proc_results) = 1 /\ proc_results[1].url = content_map[2]

(***************************************************************************)
(* The constructor on its own: any robots.txt of a few lines, fetched or   *)
(* not, with robots checking on or off.                                    *)
(***************************************************************************)
RobotsLineSet ==
    { l_agent_all, l_agent_rag, l_agent_other, RobotsLine(<<"/", "p">>), RobotsLine(<<"/">>),
      l_disallow_none, l_allow }
RobotsDocs == UNION { [1..n -> RobotsLineSet] : n \in 0..MaxRobotsLines }

InitRobots ==
    /\ mode \in {"standard", "interactive"}
    /\ site = [u \in SitePages |-> <<>>] /\ start_urls = <<A>> /\ max_pages = MaxBudget
    /\ disallowed_paths = <<>> /\ max_depth = <<>> /\ delay = DefaultDelay
    /\ respect_robots_txt \in BOOLEAN
    /\ user_agent = DefaultUserAgent
    /\ \E o \in Outcomes, doc \in RobotsDocs :
          robots_response = [outcome |-> o, text |-> Join(doc, <<"\n">>)]
    /\ rpc = "init"
    /\ urls_to_visit = <<>> /\ visited_urls = {} /\ content_map = <<>>
    /\ discovered_pages = <<>> /\ requests = <<>> /\ sleep_log = <<>> /\ allowed_log = {} /\ enq_order = <<>> /\ pc = "start"
    /\ script = <<>> /\ round = 0 /\ sel_depth = 0 /\ tables = <<>> /\ selected_urls = <<>>
    /\ fetch_queue = <<>> /\ stages = <<>>
    /\ DataIdle

SpecRobots == InitRobots /\ [][ScraperInit]_vars

SampleUrls == {A, B, C, P, Bq, E}

\* C15: when robots.txt cannot be fetched (non-200 or an exception), or robots
\* checking is off, the constructor returns with an empty rule list, so every URL of
\* an allowed domain is allowed.
C15_FailOpen ==
    (rpc = "ready" /\ (~respect_robots_txt \/ robots_response.outcome # "ok"))
       => /\ disallowed_paths = <<>>
          /\ \A u \in SampleUrls : u.host \in allowed_domains => IsAllowed(u, disallowed_paths)

\* a robots.txt that would disallow everything, answered with a non-200 status
C15_Witness ==
    /\ rpc = "ready" /\ respect_robots_txt /\ robots_response.outcome = "non200"
    /\ robots_response.text = Join(<< l_agent_all, RobotsLine(<<"/">>) >>, <<"\n">>)
    /\ disallowed_paths = <<>>

\* the same file read with success gives the rule
C15_WitnessRead ==
    /\ rpc = "ready" /\ respect_robots_txt /\ robots_response.outcome = "ok"
    /\ robots_response.text = Join(<< l_agent_all, RobotsLine(<<"/">>) >>, <<"\n">>)
    /\ disallowed_paths = << <<"/">> >>

(***************************************************************************)
(* Claims about save and load.                                             *)
(***************************************************************************)
\* the (chunk, embedding) pairs zip gives for the entry of URL u
C22_Pairs(u) ==
    IF Len(embeddings_data[u].chunks) <= Len(embeddings_data[u].embeddings)
    THEN Len(embeddings_data[u].chunks) ELSE Len(embeddings_data[u].embeddings)
\* the triples flattened before the entry of URL u
RECURSIVE C22_Offset(_)
C22_Offset(u) == IF u = 1 THEN 0 ELSE C22_Offset(u - 1) + C22_Pairs(u - 1)
C22_Keys(d) == { d.dict[i][1] : i \in 1..Len(d.dict) }
C22_Flattened == spc \notin {"idle", "loaded", "load_failed"} \/ save_status # "none"

\* C22: after the flattening loops of save the three lists have one length; the pair
\* of ordinal k (from 0) of the u-th URL sits at the position that follows all pairs
\* of the URLs before it and the k pairs before it in its own URL; its metadata
\* holds every key of the page metadata with its value, and chunk_id = k; the page
\* metadata of the argument holds no chunk key.
C22_FlattenOrder ==
    C22_Flattened =>
       /\ Len(flat_chunks) = C22_Offset(Len(embeddings_data) + 1)
       /\ Len(flat_embeddings) = Len(flat_chunks)
       /\ Len(flat_metadata) = Len(flat_chunks)
       /\ \A u \in 1..Len(embeddings_data) : \A k \in 0..(C22_Pairs(u) - 1) :
             LET j == C22_Offset(u) + k + 1
                 page == embeddings_data[u].metadata
             IN  /\ flat_chunks[j] = embeddings_data[u].chunks[k + 1]
                 /\ flat_embeddings[j] = embeddings_data[u].embeddings[k + 1]
                 /\ DictGet(flat_metadata[j], k_chunk_id) = Num(k)
                 /\ \A key \in C22_Keys(page) :
                       DictGet(flat_metadata[j], key) = DictGet(page, key)
                 /\ C22_Keys(flat_metadata[j]) = C22_Keys(page) \cup {k_chunk_id, k_chunk_text}
       /\ \A u \in 1..Len(embeddings_data) :
             /\ embeddings_data[u].metadata = StoreMeta(u)
             /\ C22_Keys(embeddings_data[u].metadata) \cap {k_chunk_id, k_chunk_text} = {}

\* two URLs of two chunks each, flattened and written
C22_Witness ==
    /\ spc = "saved" /\ Len(embeddings_data) = 2 /\ Len(flat_metadata) = 4
    /\ C22_Pairs(1) = 2 /\ C22_Pairs(2) = 2
    /\ DictGet(flat_metadata[4], k_chunk_id) = Num(1)
    /\ DictGet(flat_metadata[3], k_url) # DictGet(flat_metadata[2], k_url)

C23_Absent == index_file = <<>> \/ sidecar_file = <<>>
C23_LoadStep == spc \notin {"loaded", "load_failed"} /\ spc' \in {"loaded", "load_failed"}

\* C23: a load with the index file or the sidecar absent ends in the not-found
\* error, returns nothing and leaves both files as they were; a load with both files
\* present does not end in that error and returns what it read.
C23_Step ==
    C23_LoadStep =>
       /\ C23_Absent => /\ spc' = "load_failed"
                        /\ loaded' = <<>>
                        /\ UNCHANGED <<index_file, sidecar_file>>
       /\ ~C23_Absent => /\ spc' = "loaded"
                         /\ loaded' # <<>>
                         /\ UNCHANGED <<index_file, sidecar_file>>
C23_LoadNotFound == [][C23_Step]_vars

\* a load that failed with the index present and the sidecar absent
C23_Witness ==
    /\ spc = "load_failed" /\ index_file # <<>> /\ sidecar_file = <<>>
\* a load that returned
C23_WitnessLoaded ==
    /\ spc = "loaded" /\ loaded # <<>> /\ save_status = "none"

\* the argument of save has a URL whose lists differ in length, or no embedding
C24_Violation ==
    \/ \E u \in 1..Len(embeddings_data) :
          Len(embeddings_data[u].chunks) # Len(embeddings_data[u].embeddings)
    \/ \A u \in 1..Len(embeddings_data) : embeddings_data[u].embeddings = <<>>

\* C24: a save whose argument has a URL with chunk and embedding lists of different
\* lengths, or no embedding at all, ends in an error and writes neither file.
C24_ViolationIsFatal ==
    (C22_Flattened /\ C24_Violation) =>
       /\ spc \notin {"write_index", "write_sidecar", "saved"}
       /\ save_status # "ok"

\* C30: a load that returned gives an index with as many vectors as the chunk list
\* and the metadata list it returned have entries.
C30_LoadedParallel ==
    spc = "loaded" =>
       /\ Len(loaded[1].index) = Len(loaded[1].chunks.list)
       /\ Len(loaded[1].index) = Len(loaded[1].metadata.list)

(***************************************************************************)
(* Crawls with config.max_depth set.                                       *)
(***************************************************************************)
DepthLimits == { <<>> } \cup { <<k>> : k \in 0..MaxDepthLimit }
DepthSites == RunSites \cup { SiteOf(<<B>>, <<C>>, <<>>) }

InitDepth ==
    /\ mode \in {"standard", "interactive"}
    /\ site \in DepthSites
    /\ start_urls = <<A>>
    /\ max_pages \in 0..MaxBudget
    /\ max_depth \in DepthLimits /\ delay = DefaultDelay
    /\ disallowed_paths = <<>>
    /\ RobotsDone(disallowed_paths)
    /\ urls_to_visit = <<>>
    /\ visited_urls = {}
    /\ content_map = <<>>
    /\ discovered_pages = <<>>
    /\ requests = <<>> /\ sleep_log = <<>> /\ allowed_log = {} /\ enq_order = <<>>
    /\ pc = "start"
    /\ script = <<>> /\ round = 0 /\ sel_depth = 0 /\ tables = <<>> /\ selected_urls = <<>>
    /\ fetch_queue = <<>> /\ stages = <<>>
    /\ DataIdle

SpecDepth == InitDepth /\ [][NextCrawl]_vars

\* the URLs discovered at a link distance of at most k from the start URLs, through
\* the pages that answered 200
OkPages == {requests[i][2] : i \in {j \in 1..Len(requests) : requests[j][3] = "ok"}}
RECURSIVE WithinDepth(_)
WithinDepth(k) ==
    IF k = 0 THEN Range(start_urls)
    ELSE LET near == WithinDepth(k - 1)
         IN  near \cup { CleanUrl(h) : h \in UNION { Range(Hrefs(site, p)) : p \in near \cap OkPages } }

\* C19: with a depth limit configured, a URL first discovered at a link distance from
\* the start URLs beyond the limit is never put in the pending queue nor fetched.
C19_DepthLimit ==
    max_depth # <<>> =>
       /\ Range(urls_to_visit) \subseteq WithinDepth(max_depth[1])
       /\ Requested \subseteq WithinDepth(max_depth[1])

(***************************************************************************)
(* main of cli-module.py, steps 2 to 4: process_content, generate_embeddings *)
(* and save, each called with what the step before returned.               *)
(***************************************************************************)
\* what html2text makes of the sample pages: the page that is a list of links has
\* little text, and so has https://d/a on the other site
ShortPages == IF Len(site[A]) > 2 THEN {A} ELSE {B}
RunText(u) == IF CleanUrl(u) \in ShortPages THEN Words(30) ELSE Words(60)
RunFiles(m) == [i \in 1..Len(m) |-> [readable |-> TRUE, text |-> RunText(m[i])]]

\* processed_content = processor.process_content(content_map): the call
MainProcess ==
    /\ pc = "process" /\ ppc = "idle"
    /\ stages' = Append(stages, "process")
    /\ files' = RunFiles(content_map)
    /\ ppc' = "loop"
    /\ UNCHANGED <<crawlVars, script, round, sel_depth, tables, selected_urls, fetch_queue,
                   min_content_length, chunk_size, chunk_overlap, proc_i, proc_log,
                   proc_results, embVars, stoVars>>

\* embeddings_data = embedding_generator.generate_embeddings(processed_content): the call
MainEmbed ==
    /\ pc = "process" /\ ppc = "done"
    /\ pc' = "embed"
    /\ stages' = Append(stages, "embed")
    /\ processed_content' = proc_results
    /\ epc' = "collect"
    /\ UNCHANGED <<crawlConfig, crawlState, script, round, sel_depth, tables, selected_urls,
                   fetch_queue, procVars, batch_size, all_chunks, url_to_chunk_indices,
                   batch_i, embeddings, batches, results, stoVars>>

\* storage.save(embeddings_data): the call, up to the creation of the index
MainSaveMutEarly ==
    /\ pc = "embed" /\ epc = "batch"
    /\ pc' = "save"
    /\ stages' = Append(stages, "save")
    /\ SaveBegin(results)
    /\ UNCHANGED <<crawlConfig, crawlState, script, round, sel_depth, tables, selected_urls,
                   fetch_queue, procVars, embVars>>
MainSave ==
    /\ pc = "embed" /\ epc = "done"
    /\ pc' = "save"
    /\ stages' = Append(stages, "save")
    /\ SaveBegin(results)
    /\ UNCHANGED <<crawlConfig, crawlState, script, round, sel_depth, tables, selected_urls,
                   fetch_queue, procVars, embVars>>

\* save returned: the closing log lines and the end of main
MainDone ==
    /\ pc = "save" /\ spc = "saved"
    /\ pc' = "exit0"
    /\ UNCHANGED <<crawlConfig, crawlState, selVars, dataVars>>

\* save raised: the exception reaches the except clause of main
MainSaveRaised ==
    /\ pc = "save" /\ spc = "save_failed"
    /\ pc' = "raised"
    /\ UNCHANGED <<crawlConfig, crawlState, selVars, dataVars>>

NextRun ==
    \/ NextCrawl
    \/ SelectBegin
    \/ SelectPages
    \/ ReturnEmpty
    \/ FetchBegin
    \/ \E o \in Outcomes : FetchStep(o)
    \/ FetchReturn
    \/ MainCheck
    \/ MainProcess
    \/ NextProcess
    \/ MainEmbed
    \/ NextEmbed
    \/ MainSave
    \/ SaveWriteIndex
    \/ SaveWriteSidecar
    \/ SaveSidecarFails
    \/ MainDone
    \/ MainSaveRaised
    \/ MainCatch

SpecRun == InitRun /\ [][NextRun]_vars

(***************************************************************************)
(* Claims about a whole run.                                               *)
(***************************************************************************)
\* C25: when the crawl returned pages and process_content kept none of them, the run
\* ends without an exception and without an output file.
C25_ContentErrorGraceful ==
    (content_map # <<>> /\ ppc = "done" /\ proc_results = <<>>) =>
       /\ pc \notin {"raised", "exit1"}
       /\ index_file = <<>> /\ sidecar_file = <<>>

C26_FailedRequests == {i \in 1..Len(requests) : requests[i][3] # "ok"}
\* the crawl, or the FETCH phase, has returned
C26_CrawlOver ==
    IF mode = "standard" THEN ~LoopCond ELSE (round > 0 /\ fetch_queue = <<>>)

\* C26: process_content runs only once the crawl (in interactive mode the FETCH phase)
\* has returned, and over the whole content map; generate_embeddings runs only once
\* process_content has handled every page, on what it returned; save runs only once
\* every chunk has an embedding, on what generate_embeddings returned; and from the
\* start of the processing on no request is issued and the content map stays as it is.
C26_State ==
    /\ ppc # "idle" => /\ C26_CrawlOver
                       /\ content_map # <<>>
                       /\ Len(files) = Len(content_map)
    /\ epc # "idle" => /\ ppc = "done" /\ proc_i = Len(content_map)
                       /\ processed_content = proc_results
    /\ spc # "idle" => /\ epc = "done" /\ Len(embeddings) = Len(all_chunks)
                       /\ embeddings_data = results
    /\ \E n \in 0..3 : stages = SubSeq(<<"process", "embed", "save">>, 1, n)
C26_Step ==
    (ppc # "idle" \/ pc \in {"process", "embed", "save"})
       => UNCHANGED <<requests, content_map, visited_urls, discovered_pages>>
C26_Sequential == [](C26_State) /\ [][C26_Step]_vars

\* a run over two or more pages, one request failed, through all three stages
C26_Witness ==
    /\ pc = "exit0" /\ stages = <<"process", "embed", "save">>
    /\ Len(content_map) >= 2 /\ Len(proc_results) >= 2
    /\ Len(embeddings) >= 2 /\ spc = "saved"
    /\ C26_FailedRequests # {}

\* the exceptions a run can meet: int() on a malformed index string, and save
C27_IndexError == round > 0 /\ Accepted.choice = 2 /\ ~C7_WellFormed(Accepted.text)
C27_Exception == C27_IndexError \/ spc = "save_failed"

\* C27: a run ends with the normal status exactly when no exception reached main:
\* failed requests do not matter, an empty content map ends it normally, and a run
\* ends with status 1 only after an exception, which always leads there.
C27_State ==
    /\ pc = "exit0" => /\ ~C27_Exception
                       /\ content_map = <<>> \/ save_status = "ok"
    /\ pc \in {"raised", "exit1"} => C27_Exception
C27_Step ==
    /\ (CrawlReturned /\ content_map = <<>>) => pc' = "exit0"
    /\ pc = "raised" => pc' = "exit1"
    /\ pc' = "exit1" => pc = "raised"
    /\ (pc = "save" /\ spc = "save_failed") => pc' = "raised"
C27_ExitStatus == [](C27_State) /\ [][C27_Step]_vars

\* a run with a failed request that ended normally with its files written
C27_Witness ==
    /\ pc = "exit0" /\ save_status = "ok" /\ C26_FailedRequests # {}
    /\ index_file # <<>> /\ sidecar_file # <<>>
\* a run that ended normally with nothing to do although every request failed
C27_WitnessNothing ==
    /\ pc = "exit0" /\ content_map = <<>> /\ requests # <<>> /\ stages = <<>>
    /\ C26_FailedRequests = 1..Len(requests)
\* a run aborted by save
C27_WitnessAborted ==
    /\ pc = "exit1" /\ spc = "save_failed" /\ stages = <<"process", "embed", "save">>

\* C28: the nesting depth of select_pages_interactive does not grow with the retries
\* of the selection.
C28_DepthBounded == sel_depth = 0

C29_IsOkCrawl(r) == r[1] = "crawl" /\ r[3] = "ok"
C29_OkCrawl == SelectSeq(requests, C29_IsOkCrawl)
C29_Discovering == mode = "interactive" /\ pc \in {"start", "loop", "done"}

\* C29: in interactive mode the discovered pages are, in order, one record per crawl
\* request that answered 200, each URL of them visited; a record once added stays
\* as it is at its place; and up to the end of discover_pages the content map is
\* empty.
C29_State ==
    mode = "interactive" =>
       /\ Len(discovered_pages) = Len(C29_OkCrawl)
       /\ \A i \in 1..Len(discovered_pages) :
             discovered_pages[i] = PageInfo(C29_OkCrawl[i][2])
       /\ Range(PageUrls) \subseteq visited_urls
       /\ Cardinality(Range(PageUrls)) = Len(PageUrls)
       /\ C29_Discovering => content_map = <<>>
C29_Step == IsPrefix(discovered_pages, discovered_pages')
C29_DiscoverOnlyRecords == [](C29_State) /\ [][C29_Step]_vars

\* a discovery of two or more pages with a failed request, ended
C29_Witness ==
    /\ mode = "interactive" /\ pc = "done"
    /\ Len(discovered_pages) >= 2 /\ C26_FailedRequests # {}
    /\ Cardinality(visited_urls) > Len(discovered_pages)

(***************************************************************************)
(* Claims about the text cleaning.                                         *)
(***************************************************************************)
\* the text of page i after re.sub(r'\s+', ' ', text).strip()
C31_Collapsed(i) == NormalizeSpace(files[i].text)

\* C31: a handled page whose collapsed text is not empty and has min_content_length
\* characters or more is not emptied by the line filter: it yields chunks.
C31_KeepsAtLeastMin ==
    \A i \in 1..Len(proc_log) :
        (files[i].readable /\ C31_Collapsed(i) # <<>>
           /\ Len(C31_Collapsed(i)) >= min_content_length)
        => proc_log[i].chunks # <<>>

(***************************************************************************)
(* Claims about the rule list.                                             *)
(***************************************************************************)
C32_Lines == LET raw == Lines(robots_response.text) IN [i \in 1..Len(raw) |-> Strip(raw[i])]
C32_IsAgent(j) == StartsWith(LowerStr(C32_Lines[j]), user_agent_key)
C32_IsDisallow(j) ==
    /\ ~C32_IsAgent(j)
    /\ StartsWith(LowerStr(C32_Lines[j]), disallow_key)
    /\ AfterColon(C32_Lines[j]) # <<>>
\* the User-agent lines heading the group line j is in: the consecutive ones that
\* end at the last User-agent line before j
C32_Header(j) ==
    LET before == {h \in 1..(j - 1) : C32_IsAgent(h)}
    IN  IF before = {} THEN {}
        ELSE LET last == CHOOSE h \in before : \A g \in before : g <= h
             IN  {k \in 1..last : \A m \in k..last : C32_IsAgent(m)}
C32_GroupApplies(j) ==
    \E k \in C32_Header(j) : AgentApplies(AfterColon(C32_Lines[k]), user_agent)
C32_IsRule(j) == C32_IsDisallow(j) /\ C32_GroupApplies(j)
C32_RuleLines == SelectSeq([j \in 1..Len(C32_Lines) |-> j], C32_IsRule)
C32_Expected == [i \in 1..Len(C32_RuleLines) |-> AfterColon(C32_Lines[C32_RuleLines[i]])]

\* C32: the rule list read from a fetched robots.txt is, in document order, the
\* non-empty Disallow paths of the groups of which one of the heading User-agent
\* lines is "*" or a substring of the identity string.
C32_RulesPerGroup ==
    (rpc = "ready" /\ respect_robots_txt /\ robots_response.outcome = "ok")
       => disallowed_paths = C32_Expected

(***************************************************************************)
(* More claims about the crawl loop.                                       *)
(***************************************************************************)
\* C33: every visited URL is canonical (no query, no fragment), and no two visited
\* URLs are spellings of one page.
C33_VisitedCanonical ==
    /\ \A u \in visited_urls : u.extra = ""
    /\ \A u, v \in visited_urls : CleanUrl(u) = CleanUrl(v) => u = v

C34_Failed == {i \in CrawlRequests : requests[i][3] # "ok"}

\* C34: in scrape() the keys of the content map are visited URLs, one per request
\* that answered 200; content-map size <= visited count <= page budget; and every
\* failed request accounts for one visited URL that has no content-map entry.
C34_ContentWithinVisited ==
    mode = "standard" =>
       /\ Range(content_map) \subseteq visited_urls
       /\ Cardinality(Range(content_map)) = Len(content_map)
       /\ Len(content_map) <= Cardinality(visited_urls)
       /\ Cardinality(visited_urls) <= max_pages
       /\ Cardinality(visited_urls) = Len(content_map) + Cardinality(C34_Failed)
       /\ \A i \in C34_Failed : requests[i][2] \in visited_urls \ Range(content_map)

\* a scrape that used its whole budget of three on one failed and two stored pages
C34_Witness ==
    /\ mode = "standard" /\ pc = "done" /\ max_pages = 3
    /\ Cardinality(visited_urls) = 3 /\ Len(content_map) = 2
    /\ Cardinality(C34_Failed) = 1 /\ urls_to_visit # <<>>

(***************************************************************************)
(* More claims about the selection.                                        *)
(***************************************************************************)
\* C35: whatever the operator types, a call of select_pages_interactive has either
\* returned a list of discovered URLs or is at the prompt again: no exception leaves
\* it.
C35_SelectNeverRaises ==
    (mode = "interactive" /\ round > 0) =>
       /\ pc \in {"select", "selected"}
       /\ Range(selected_urls) \subseteq Range(PageUrls)

(***************************************************************************)
(* Claims about the rate limit.                                            *)
(***************************************************************************)

\* the i-th page request was made right after the i-th sleep, which lasted config.delay
C36_State ==
    /\ Len(sleep_log) = Len(requests)
    /\ \A i \in 1..Len(sleep_log) :
          sleep_log[i] = [secs |-> delay, issued |-> i - 1]
\* a step issues at most one page request, which has its answer before the step ends,
\* and sleeps once when it issues one, whatever the answer
C36_Step ==
    /\ Len(requests') \in {Len(requests), Len(requests) + 1}
    /\ SubSeq(requests', 1, Len(requests)) = requests
    /\ Len(sleep_log') - Len(sleep_log) = Len(requests') - Len(requests)
\* C36: every page request of the crawl loop and of the FETCH phase comes after exactly
\* one sleep of the configured delay, failed requests included, and page requests are
\* made one at a time.
C36_SleepBeforeEachRequest == [](C36_State) /\ [][C36_Step]_vars
\* a run that slept before a failed crawl request and before a failed FETCH request
C36_Witness ==
    /\ delay = DefaultDelay
    /\ \E i, j \in 1..Len(requests) :
          /\ requests[i][1] = "crawl" /\ requests[i][3] # "ok"
          /\ requests[j][1] = "fetch" /\ requests[j][3] # "ok"
    /\ Len(sleep_log) = Len(requests)

====
